---- MODULE Spec2Model ----
(***************************************************************************)
(* DeleGate: the Worker Capability Registry (registry.py), the Plan        *)
(* construction invariants (models.py) and the Plan synthesizer            *)
(* (planner.py) as a state machine.                                        *)
(*                                                                         *)
(* Conventions.  A Python str is a sequence of one-character strings, so   *)
(* that lower(), split() and the substring test are computed.  Optional[T] *)
(* is <<>> (None) or <<v>>.  A float score is an integer in units of       *)
(* 1/10000, with the IEEE-754 results of the code's sums kept apart from   *)
(* the decimals they approximate (0.4 + 0.1*2 is 0.6000000000000001).      *)
(* current_load is in tenths.  A dict is the sequence of its values in     *)
(* insertion order.                                                        *)
(***************************************************************************)
EXTENDS Integers, Sequences, FiniteSets, TLC

VARIABLES
    workers,            \* WorkerRegistry._workers: manifests in dict insertion order
    capability_index,   \* WorkerRegistry._capability_index: tool name -> set of worker ids
    tag_index,          \* WorkerRegistry._tag_index: semantic tag -> set of worker ids
    settings,           \* the cached Settings instance (fixed for a run)
    now,                \* the wall clock read by datetime.utcnow()
    ret,                \* the last operation: its name, its arguments, what it returned
    built,              \* the last Plan construction: its input and its outcome
    lock,               \* WorkerRegistry._lock: the task that holds it, if any
    calls,              \* the mutating call each task has in progress, and where it is
    issued,             \* the receipts handed to the emitter so far: their ids are 1..issued
    retry_queue,        \* receipts._retry_queue: the receipts waiting for the retry worker
    ledger,             \* the ids of the receipts the ledger has stored
    ledger_accepts,     \* the ledger accepts every request from now on
    served              \* what the plan endpoint last sent back, if it was called

\* the state of receipt emission and of the plan endpoint
receiptVars == <<issued, retry_queue, ledger, ledger_accepts, served>>

vars == <<workers, capability_index, tag_index, settings, now, ret, built, lock, calls,
          receiptVars>>

-----------------------------------------------------------------------------
(* Bounds of the model *)

MaxClock == 1        \* the clock runs from 0 to MaxClock
MaxLimit == 2        \* search is called with limit 1..MaxLimit
MaxPlanSteps == 3    \* externally supplied Plans have at most this many steps
MaxBacklog == 12   \* the retry queue holds at most this many receipts to begin with
MaxReceipts == 2     \* at most this many receipts are handed to the emitter

-----------------------------------------------------------------------------
(* Python values *)

None == <<>>
Some(v) == <<v>>
IsNone(o) == o = <<>>
Val(o) == o[1]

Range(s) == {s[i] : i \in DOMAIN s}

Min2(a, b) == IF a <= b THEN a ELSE b
Max2(a, b) == IF a >= b THEN a ELSE b

UpperChars == <<"A","B","C","D","E","F","G","H","I","J","K","L","M",
                "N","O","P","Q","R","S","T","U","V","W","X","Y","Z">>
LowerChars == <<"a","b","c","d","e","f","g","h","i","j","k","l","m",
                "n","o","p","q","r","s","t","u","v","w","x","y","z">>

LowerChar(c) ==
    IF \E i \in DOMAIN UpperChars : UpperChars[i] = c
    THEN LowerChars[CHOOSE i \in DOMAIN UpperChars : UpperChars[i] = c]
    ELSE c

\* str.lower()
Lower(s) == [i \in DOMAIN s |-> LowerChar(s[i])]

IsSpace(c) == c \in {" ", "\t", "\n", "\r"}

\* a in b, for two strs
Contains(b, a) ==
    \E i \in 0..(Len(b) - Len(a)) : SubSeq(b, i + 1, i + Len(a)) = a

\* str.split(): the maximal runs of non-whitespace characters, in order
RECURSIVE SplitFrom(_, _, _)
SplitFrom(s, i, cur) ==
    IF i > Len(s)
    THEN IF cur = <<>> THEN <<>> ELSE <<cur>>
    ELSE IF IsSpace(s[i])
         THEN (IF cur = <<>> THEN <<>> ELSE <<cur>>) \o SplitFrom(s, i + 1, <<>>)
         ELSE SplitFrom(s, i + 1, Append(cur, s[i]))

Split(s) == SplitFrom(s, 1, <<>>)

\* str.strip()
RECURSIVE LStrip(_)
LStrip(s) == IF s # <<>> /\ IsSpace(s[1]) THEN LStrip(Tail(s)) ELSE s
RECURSIVE RStrip(_)
RStrip(s) ==
    IF s # <<>> /\ IsSpace(s[Len(s)]) THEN RStrip(SubSeq(s, 1, Len(s) - 1)) ELSE s
Strip(s) == RStrip(LStrip(s))

\* seq[:n]
Take(s, n) == SubSeq(s, 1, Min2(n, Len(s)))

-----------------------------------------------------------------------------
(* Enumerations of models.py *)

UNTRUSTED == 0
SANDBOX == 1
VERIFIED == 2
TRUSTED == 3
TrustTier == {UNTRUSTED, SANDBOX, VERIFIED, TRUSTED}

VerificationStatus == {"pass", "fail", "unknown"}
WorkerAvailability == {"ready", "degraded", "maintenance", "offline"}
StepType == {"call_worker", "queue_execution", "wait_for", "aggregate", "escalate"}

\* `a or b` on an Optional[TrustTier] a: None and UNTRUSTED (0) are both falsy
EffectiveTier(trust) ==
    IF IsNone(trust.verified_tier) \/ Val(trust.verified_tier) = 0
    THEN trust.declared_tier
    ELSE Val(trust.verified_tier)

\* `not s` on an Optional[str]: None and "" are both falsy
Falsy(optstr) == IsNone(optstr) \/ Val(optstr) = <<>>

-----------------------------------------------------------------------------
(* The dict _workers *)

WorkerIdsOf(ws) == {ws[i].worker_id : i \in DOMAIN ws}

\* _workers.get(worker_id)
WorkersGet(ws, wid) ==
    IF wid \in WorkerIdsOf(ws)
    THEN Some(ws[CHOOSE i \in DOMAIN ws : ws[i].worker_id = wid])
    ELSE None

\* _workers[worker_id] = manifest: an existing key keeps its position
WorkersSet(ws, m) ==
    IF m.worker_id \in WorkerIdsOf(ws)
    THEN [i \in DOMAIN ws |-> IF ws[i].worker_id = m.worker_id THEN m ELSE ws[i]]
    ELSE Append(ws, m)

RECURSIVE WorkersPop(_, _)
WorkersPop(ws, wid) ==
    IF ws = <<>> THEN <<>>
    ELSE IF Head(ws).worker_id = wid
         THEN Tail(ws)
         ELSE <<Head(ws)>> \o WorkersPop(Tail(ws), wid)

\* the defaultdict(set) indexes: index[key].add(id), index[key].discard(id);
\* reading index[key] creates the key
IndexAdd(idx, key, wid) ==
    IF key \in DOMAIN idx
    THEN [idx EXCEPT ![key] = @ \cup {wid}]
    ELSE [k \in DOMAIN idx \cup {key} |-> IF k = key THEN {wid} ELSE idx[k]]

IndexDiscard(idx, key, wid) ==
    IF key \in DOMAIN idx
    THEN [idx EXCEPT ![key] = @ \ {wid}]
    ELSE [k \in DOMAIN idx \cup {key} |-> IF k = key THEN {} ELSE idx[k]]

\* index.get(key, set())
IndexGet(idx, key) == IF key \in DOMAIN idx THEN idx[key] ELSE {}

RECURSIVE FoldKeys(_, _, _, _)
FoldKeys(idx, keys, wid, add) ==
    IF keys = <<>> THEN idx
    ELSE FoldKeys(IF add THEN IndexAdd(idx, Lower(Head(keys)), wid)
                         ELSE IndexDiscard(idx, Lower(Head(keys)), wid),
                  Tail(keys), wid, add)

ToolNames(m) == [i \in DOMAIN m.capabilities |-> m.capabilities[i].tool_name]

RECURSIVE AllTags(_)
AllTags(caps) ==
    IF caps = <<>> THEN <<>> ELSE Head(caps).semantic_tags \o AllTags(Tail(caps))

\* _add_to_indexes, on the pair (capability index, tag index)
AddToIndexes(ci, ti, m) ==
    <<FoldKeys(ci, ToolNames(m), m.worker_id, TRUE),
      FoldKeys(ti, AllTags(m.capabilities), m.worker_id, TRUE)>>

\* _remove_from_indexes
RemoveFromIndexes(ci, ti, m) ==
    <<FoldKeys(ci, ToolNames(m), m.worker_id, FALSE),
      FoldKeys(ti, AllTags(m.capabilities), m.worker_id, FALSE)>>

-----------------------------------------------------------------------------
(* WorkerRegistry: trust verification and the mutating operations *)

\* _verify_trust raises ValueError: untrusted registration is disabled
VerifyTrustRaises(m) ==
    m.trust.declared_tier = UNTRUSTED /\ ~settings.allow_untrusted_workers

\* an honor system that marks what it accepts as verified
HonorSystemPasses(trust) ==
    IF IsNone(trust.verified_tier)
    THEN [trust EXCEPT !.verified_tier = Some(trust.declared_tier),
                       !.verification_status = "pass"]
    ELSE trust

\* Phase 1 honor system: an absent verified tier becomes the declared tier
HonorSystem(trust) ==
    IF IsNone(trust.verified_tier)
    THEN [trust EXCEPT !.verified_tier = Some(trust.declared_tier),
                       !.verification_status = "unknown"]
    ELSE trust

\* production signature enforcement: no signature on a tier >= VERIFIED
SignatureCheck(trust) ==
    IF settings.require_signatures_production
       /\ trust.declared_tier >= VERIFIED
       /\ Falsy(trust.signature)
    THEN [trust EXCEPT !.verification_status = "fail",
                       !.verified_tier = Some(SANDBOX)]
    ELSE trust

\* _verify_trust, when it does not raise
VerifyTrust(m) == [m EXCEPT !.trust = SignatureCheck(HonorSystem(m.trust))]

\* register: the manifest as stamped before verification
Stamp(m) ==
    [m EXCEPT !.registered_at = IF IsNone(@) THEN Some(now) ELSE @,
              !.last_seen = Some(now)]

\* a register that stores and indexes the stamped manifest before it verifies trust
RegisterRejectedAfterStore(m) ==
    /\ VerifyTrustRaises(Stamp(m))
    /\ workers' = WorkersSet(workers, Stamp(m))
    /\ capability_index' = AddToIndexes(capability_index, tag_index, Stamp(m))[1]
    /\ tag_index' = AddToIndexes(capability_index, tag_index, Stamp(m))[2]
    /\ ret' = [op |-> "register", arg |-> m, raised |-> TRUE, out |-> None]

RegisterRejected(m) ==
    /\ VerifyTrustRaises(Stamp(m))
    /\ ret' = [op |-> "register", arg |-> m, raised |-> TRUE, out |-> None]
    /\ UNCHANGED <<workers, capability_index, tag_index>>

\* a register that adds the new index entries without removing the old ones
RegisterStoredNoRemoval(m) ==
    /\ ~VerifyTrustRaises(Stamp(m))
    /\ workers' = WorkersSet(workers, VerifyTrust(Stamp(m)))
    /\ capability_index' = AddToIndexes(capability_index, tag_index, VerifyTrust(Stamp(m)))[1]
    /\ tag_index' = AddToIndexes(capability_index, tag_index, VerifyTrust(Stamp(m)))[2]
    /\ ret' = [op |-> "register", arg |-> m, raised |-> FALSE,
               out |-> Some(VerifyTrust(Stamp(m)))]

\* a register cut short between the removal of the old index entries and the
\* insertion of the new ones: the manifest is stored, its capabilities not yet indexed
RegisterStoredBeforeInsertion(m) ==
    /\ ~VerifyTrustRaises(Stamp(m))
    /\ workers' = WorkersSet(workers, VerifyTrust(Stamp(m)))
    /\ capability_index' =
          IF IsNone(WorkersGet(workers, m.worker_id)) THEN capability_index
          ELSE RemoveFromIndexes(capability_index, tag_index,
                                 Val(WorkersGet(workers, m.worker_id)))[1]
    /\ tag_index' =
          IF IsNone(WorkersGet(workers, m.worker_id)) THEN tag_index
          ELSE RemoveFromIndexes(capability_index, tag_index,
                                 Val(WorkersGet(workers, m.worker_id)))[2]
    /\ ret' = [op |-> "register", arg |-> m, raised |-> FALSE,
               out |-> Some(VerifyTrust(Stamp(m)))]

RegisterStored(m) ==
    /\ ~VerifyTrustRaises(Stamp(m))
    /\ LET v == VerifyTrust(Stamp(m))
           old == WorkersGet(workers, v.worker_id)
           removed == IF IsNone(old)
                      THEN <<capability_index, tag_index>>
                      ELSE RemoveFromIndexes(capability_index, tag_index, Val(old))
           added == AddToIndexes(removed[1], removed[2], v)
       IN /\ workers' = WorkersSet(workers, v)
          /\ capability_index' = added[1]
          /\ tag_index' = added[2]
          /\ ret' = [op |-> "register", arg |-> m, raised |-> FALSE, out |-> Some(v)]

\* WorkerRegistry.register(manifest), the lock being free
Register(m) ==
    /\ RegisterRejected(m) \/ RegisterStored(m)
    /\ UNCHANGED <<settings, now, built, lock, calls, receiptVars>>

\* an unregister that pops the worker and leaves the indexes alone
UnregisterKeepsIndexes(wid) ==
    /\ IF wid \notin WorkerIdsOf(workers)
       THEN /\ ret' = [op |-> "unregister", arg |-> wid, raised |-> FALSE, out |-> Some(FALSE)]
            /\ UNCHANGED workers
       ELSE /\ workers' = WorkersPop(workers, wid)
            /\ ret' = [op |-> "unregister", arg |-> wid, raised |-> FALSE, out |-> Some(TRUE)]
    /\ UNCHANGED <<capability_index, tag_index, settings, now, built, lock, calls, receiptVars>>

\* unregister, the block under the lock
UnregisterLocked(wid) ==
    IF wid \notin WorkerIdsOf(workers)
    THEN /\ ret' = [op |-> "unregister", arg |-> wid, raised |-> FALSE, out |-> Some(FALSE)]
         /\ UNCHANGED <<workers, capability_index, tag_index>>
    ELSE LET manifest == Val(WorkersGet(workers, wid))
             removed == RemoveFromIndexes(capability_index, tag_index, manifest)
         IN /\ workers' = WorkersPop(workers, wid)
            /\ capability_index' = removed[1]
            /\ tag_index' = removed[2]
            /\ ret' = [op |-> "unregister", arg |-> wid, raised |-> FALSE, out |-> Some(TRUE)]

\* WorkerRegistry.unregister(worker_id), the lock being free
Unregister(wid) ==
    /\ UnregisterLocked(wid)
    /\ UNCHANGED <<settings, now, built, lock, calls, receiptVars>>

\* update_worker_status, the block under the lock
UpdateWorkerStatusOfAll(wid, availability) ==
    /\ IF wid \notin WorkerIdsOf(workers)
       THEN /\ ret' = [op |-> "update_worker_status", arg |-> <<wid, availability>>,
                       raised |-> FALSE, out |-> Some(FALSE)]
            /\ UNCHANGED workers
       ELSE /\ workers' = [i \in DOMAIN workers |->
                             [workers[i] EXCEPT !.availability = availability,
                                                !.last_seen = Some(now)]]
            /\ ret' = [op |-> "update_worker_status", arg |-> <<wid, availability>>,
                       raised |-> FALSE, out |-> Some(TRUE)]
    /\ UNCHANGED <<capability_index, tag_index>>

UpdateWorkerStatusLocked(wid, availability) ==
    /\ IF wid \notin WorkerIdsOf(workers)
       THEN /\ ret' = [op |-> "update_worker_status", arg |-> <<wid, availability>>,
                       raised |-> FALSE, out |-> Some(FALSE)]
            /\ UNCHANGED workers
       ELSE /\ workers' = [i \in DOMAIN workers |->
                             IF workers[i].worker_id = wid
                             THEN [workers[i] EXCEPT !.availability = availability,
                                                     !.last_seen = Some(now)]
                             ELSE workers[i]]
            /\ ret' = [op |-> "update_worker_status", arg |-> <<wid, availability>>,
                       raised |-> FALSE, out |-> Some(TRUE)]
    /\ UNCHANGED <<capability_index, tag_index>>

\* WorkerRegistry.update_worker_status(worker_id, availability), the lock being free
UpdateWorkerStatus(wid, availability) ==
    /\ UpdateWorkerStatusLocked(wid, availability)
    /\ UNCHANGED <<settings, now, built, lock, calls, receiptVars>>

-----------------------------------------------------------------------------
(* WorkerRegistry: the read operations *)

\* 0.4 + 0.1 * min(tag_matches, 4), as the IEEE-754 double it evaluates to
TagBonus(n) ==
    CASE Min2(n, 4) = 1 -> 5000
      [] Min2(n, 4) = 2 -> 6001
      [] Min2(n, 4) = 3 -> 7001
      [] OTHER -> 8000

\* 0.3 + 0.1 * min(overlap, 3), as the IEEE-754 double it evaluates to
OverlapBonus(n) ==
    CASE Min2(n, 3) = 1 -> 4000
      [] Min2(n, 3) = 2 -> 5000
      [] OTHER -> 6001

\* _calculate_capability_match(query_lower, query_words, capability)
CalculateCapabilityMatch(query_lower, query_words, capability) ==
    LET tool == Lower(capability.tool_name)
        desc == Lower(capability.description)
        base == IF query_lower = tool THEN 10000
                ELSE IF Contains(tool, query_lower) THEN 8000
                ELSE IF Contains(desc, query_lower) THEN 6000
                ELSE 0
        tag_matches ==
            Cardinality({i \in DOMAIN capability.semantic_tags :
                \E word \in query_words :
                    Contains(Lower(capability.semantic_tags[i]), word)})
        withTags == IF tag_matches > 0 THEN Max2(base, TagBonus(tag_matches)) ELSE base
        overlap == Cardinality(query_words \cap Range(Split(desc)))
    IN IF overlap > 0 THEN Max2(withTags, OverlapBonus(overlap)) ELSE withTags

\* the capabilities of a manifest with a positive match, in order
RECURSIVE MatchedCapabilities(_, _, _)
MatchedCapabilities(query_lower, query_words, caps) ==
    IF caps = <<>> THEN <<>>
    ELSE (IF CalculateCapabilityMatch(query_lower, query_words, Head(caps)) > 0
          THEN <<Head(caps).tool_name>> ELSE <<>>)
         \o MatchedCapabilities(query_lower, query_words, Tail(caps))

RECURSIVE MaxCapScore(_, _, _)
MaxCapScore(query_lower, query_words, caps) ==
    IF caps = <<>> THEN 0
    ELSE Max2(CalculateCapabilityMatch(query_lower, query_words, Head(caps)),
              MaxCapScore(query_lower, query_words, Tail(caps)))

\* the relevance score search gives one manifest
WorkerScore(query_lower, query_words, manifest) ==
    LET capScore == MaxCapScore(query_lower, query_words, manifest.capabilities)
    IN IF Contains(Lower(manifest.worker_name), query_lower)
       THEN Max2(capScore, 5000)
       ELSE capScore

\* a search that skips on the trust threshold only
SearchSkipsTrustOnly(manifest, min_trust_tier) ==
    /\ ~IsNone(min_trust_tier)
    /\ EffectiveTier(manifest.trust) < Val(min_trust_tier)

\* search skips the manifest: below the trust threshold, or offline
SearchSkips(manifest, min_trust_tier) ==
    \/ /\ ~IsNone(min_trust_tier)
       /\ EffectiveTier(manifest.trust) < Val(min_trust_tier)
    \/ manifest.availability.status = "offline"

\* the loop of search over _workers.items(): the unsorted results
RECURSIVE SearchLoop(_, _, _, _)
SearchLoop(ws, query_lower, query_words, min_trust_tier) ==
    IF ws = <<>> THEN <<>>
    ELSE LET manifest == Head(ws)
             score == WorkerScore(query_lower, query_words, manifest)
         IN (IF ~SearchSkips(manifest, min_trust_tier) /\ score > 0
             THEN <<[worker_id |-> manifest.worker_id,
                     worker_name |-> manifest.worker_name,
                     relevance_score |-> Min2(10000, score),
                     matched_capabilities |->
                         MatchedCapabilities(query_lower, query_words,
                                             manifest.capabilities),
                     trust |-> manifest.trust,
                     availability |-> manifest.availability]>>
             ELSE <<>>)
            \o SearchLoop(Tail(ws), query_lower, query_words, min_trust_tier)

\* list.sort(key=relevance_score, reverse=True): stable, equal keys keep their order
RECURSIVE InsertByScore(_, _)
InsertByScore(sorted, r) ==
    IF sorted = <<>> THEN <<r>>
    ELSE IF Head(sorted).relevance_score >= r.relevance_score
         THEN <<Head(sorted)>> \o InsertByScore(Tail(sorted), r)
         ELSE <<r>> \o sorted

\* a search that returns the results in the order of the loop, unsorted
SortByScoreKeepsOrder(rs, acc) == acc \o rs

RECURSIVE SortByScore(_, _)
SortByScore(rs, acc) ==
    IF rs = <<>> THEN acc ELSE SortByScore(Tail(rs), InsertByScore(acc, Head(rs)))

\* WorkerRegistry.search(query, min_trust_tier, limit)
SearchResult(ws, query, min_trust_tier, limit) ==
    LET query_lower == Lower(query)
        query_words == Range(Split(query_lower))
    IN Take(SortByScore(SearchLoop(ws, query_lower, query_words, min_trust_tier), <<>>),
            limit)

DefaultConstraints == [require_ready |-> FALSE, max_load |-> 10]

\* a constraint filter that does not look at signatures
MatchDropsUnsignedKept(ws, result, constraints, trust_policy) ==
    \/ IsNone(WorkersGet(ws, result.worker_id))
    \/ /\ constraints.require_ready
       /\ Val(WorkersGet(ws, result.worker_id)).availability.status # "ready"
    \/ Val(WorkersGet(ws, result.worker_id)).availability.current_load > constraints.max_load

\* match_intent drops the search result: the constraint filter
MatchDrops(ws, result, constraints, trust_policy) ==
    LET manifest == WorkersGet(ws, result.worker_id)
    IN \/ IsNone(manifest)
       \/ constraints.require_ready /\ Val(manifest).availability.status # "ready"
       \/ Val(manifest).availability.current_load > constraints.max_load
       \/ /\ ~IsNone(trust_policy)
          /\ Val(trust_policy).require_signatures
          /\ Falsy(Val(manifest).trust.signature)

RECURSIVE MatchFilter(_, _, _, _)
MatchFilter(ws, results, constraints, trust_policy) ==
    IF results = <<>> THEN <<>>
    ELSE (IF MatchDrops(ws, Head(results), constraints, trust_policy)
          THEN <<>> ELSE <<Head(results)>>)
         \o MatchFilter(ws, Tail(results), constraints, trust_policy)

\* WorkerRegistry.match_intent(intent, constraints, trust_policy)
MatchIntentResult(ws, intent, constraints, trust_policy) ==
    LET min_tier == IF IsNone(trust_policy) THEN None
                    ELSE Some(Val(trust_policy).minimum_worker_tier)
    IN MatchFilter(ws, SearchResult(ws, intent, min_tier, 50), constraints, trust_policy)

\* get_worker_for_tool keeps the manifest as a candidate
ToolCandidate(manifest, trust_policy) ==
    /\ \/ IsNone(trust_policy)
       \/ /\ EffectiveTier(manifest.trust) >= Val(trust_policy).minimum_worker_tier
          /\ ~(Val(trust_policy).require_signatures /\ Falsy(manifest.trust.signature))
    /\ manifest.availability.status # "offline"

\* sort_key(m) <= sort_key(n), the keys being (avail_score, -tier, current_load)
SortKeyLeq(m, n) ==
    LET am == IF m.availability.status = "ready" THEN 0 ELSE 1
        an == IF n.availability.status = "ready" THEN 0 ELSE 1
        tm == 0 - EffectiveTier(m.trust)
        tn == 0 - EffectiveTier(n.trust)
    IN \/ am < an
       \/ am = an /\ tm < tn
       \/ am = an /\ tm = tn /\ m.availability.current_load <= n.availability.current_load

\* WorkerRegistry.get_worker_for_tool(tool_name, trust_policy): the manifests it may
\* return.  The candidates are listed in the iteration order of a set of str, which
\* the build does not fix, and the stable sort keeps the first of several equal keys.
GetWorkerForToolResults(ws, ci, tool_name, trust_policy) ==
    LET candidates ==
            {Val(WorkersGet(ws, wid)) :
                wid \in {w \in IndexGet(ci, Lower(tool_name)) :
                            /\ ~IsNone(WorkersGet(ws, w))
                            /\ ToolCandidate(Val(WorkersGet(ws, w)), trust_policy)}}
    IN IF candidates = {} THEN {None}
       ELSE {Some(m) : m \in {c \in candidates : \A d \in candidates : SortKeyLeq(c, d)}}

\* WorkerRegistry.search as an operation
Search(query, min_trust_tier, limit) ==
    /\ ret' = [op |-> "search", arg |-> <<query, min_trust_tier, limit>>, raised |-> FALSE,
               out |-> Some(SearchResult(workers, query, min_trust_tier, limit))]
    /\ UNCHANGED <<workers, capability_index, tag_index, settings, now, built, lock, calls, receiptVars>>

\* WorkerRegistry.match_intent as an operation
MatchIntent(intent, constraints, trust_policy) ==
    /\ ret' = [op |-> "match_intent", arg |-> <<intent, constraints, trust_policy>>,
               raised |-> FALSE,
               out |-> Some(MatchIntentResult(workers, intent, constraints, trust_policy))]
    /\ UNCHANGED <<workers, capability_index, tag_index, settings, now, built, lock, calls, receiptVars>>

\* WorkerRegistry.get(worker_id)
Get(wid) ==
    /\ ret' = [op |-> "get", arg |-> wid, raised |-> FALSE,
               out |-> Some(WorkersGet(workers, wid))]
    /\ UNCHANGED <<workers, capability_index, tag_index, settings, now, built, lock, calls, receiptVars>>

\* WorkerRegistry.get_worker_for_tool as an operation
GetWorkerForTool(tool_name, trust_policy) ==
    /\ \E r \in GetWorkerForToolResults(workers, capability_index, tool_name, trust_policy) :
          ret' = [op |-> "get_worker_for_tool", arg |-> <<tool_name, trust_policy>>,
                  raised |-> FALSE, out |-> Some(r)]
    /\ UNCHANGED <<workers, capability_index, tag_index, settings, now, built, lock, calls, receiptVars>>

\* time passes between two operations
Tick ==
    /\ now < MaxClock
    /\ now' = now + 1
    /\ UNCHANGED <<workers, capability_index, tag_index, settings, ret, built, lock, calls, receiptVars>>

-----------------------------------------------------------------------------
(* WorkerRegistry under concurrent callers.  A mutating call is a task on the event
   loop: it waits at `async with self._lock` until the lock is free, then runs the
   block under the lock, which has no suspension point, and leaves it.  The read
   operations take no lock and run between any two of these steps. *)

Tasks == {"t1", "t2"}

\* a task with no call in progress
Idle == [op |-> "", arg |-> None, pc |-> "idle"]

\* a caller starts register, unregister or update_worker_status: the task reaches
\* `async with self._lock`
Invoke(t, op, arg) ==
    /\ calls[t].pc = "idle"
    /\ calls' = [calls EXCEPT ![t] = [op |-> op, arg |-> arg, pc |-> "acquire"]]
    /\ UNCHANGED <<workers, capability_index, tag_index, settings, now, ret, built, lock, receiptVars>>

\* asyncio.Lock.acquire: the task enters the block once the lock is free
Acquire(t) ==
    /\ calls[t].pc = "acquire"
    /\ IsNone(lock)
    /\ lock' = Some(t)
    /\ calls' = [calls EXCEPT ![t].pc = "locked"]
    /\ UNCHANGED <<workers, capability_index, tag_index, settings, now, ret, built, receiptVars>>

\* a lock that is released when the block returns and kept when it raises
AExitOnReturnOnly(held, raised) == IF raised THEN held ELSE None

\* leaving `async with self._lock`: the lock is released, whether the block
\* returned or raised
AExit(held, raised) == None

\* register, from the lock taken to the lock released
RegisterTask(t) ==
    /\ calls[t].pc = "locked" /\ calls[t].op = "register"
    /\ RegisterRejected(calls[t].arg) \/ RegisterStored(calls[t].arg)
    /\ lock' = AExit(lock, ret'.raised)
    /\ calls' = [calls EXCEPT ![t] = Idle]
    /\ UNCHANGED <<settings, now, built, receiptVars>>

\* unregister, from the lock taken to the lock released
UnregisterTask(t) ==
    /\ calls[t].pc = "locked" /\ calls[t].op = "unregister"
    /\ UnregisterLocked(calls[t].arg)
    /\ lock' = AExit(lock, ret'.raised)
    /\ calls' = [calls EXCEPT ![t] = Idle]
    /\ UNCHANGED <<settings, now, built, receiptVars>>

\* update_worker_status, from the lock taken to the lock released
UpdateWorkerStatusTask(t) ==
    /\ calls[t].pc = "locked" /\ calls[t].op = "update_worker_status"
    /\ UpdateWorkerStatusLocked(calls[t].arg[1], calls[t].arg[2])
    /\ lock' = AExit(lock, ret'.raised)
    /\ calls' = [calls EXCEPT ![t] = Idle]
    /\ UNCHANGED <<settings, now, built, receiptVars>>

-----------------------------------------------------------------------------
(* models.py: PlanStep and Plan construction *)

SchemaVersion == "DG-PLAN-0001"

\* a validator that asks an execution step for its worker only
PlanStepRaisesWorkerOnly(step) ==
    CASE step.step_type \in {"call_worker", "queue_execution"} -> Falsy(step.worker_id)
      [] step.step_type = "wait_for" -> step.wait_conditions = <<>>
      [] step.step_type = "aggregate" -> step.inputs = <<>>
      [] step.step_type = "escalate" -> IsNone(step.reason) \/ Falsy(step.message)
      [] OTHER -> FALSE

\* PlanStep.validate_step_type_requirements raises ValueError
PlanStepRaises(step) ==
    CASE step.step_type \in {"call_worker", "queue_execution"} ->
            Falsy(step.worker_id) \/ Falsy(step.tool_name)
      [] step.step_type = "wait_for" -> step.wait_conditions = <<>>
      [] step.step_type = "aggregate" -> step.inputs = <<>>
      [] step.step_type = "escalate" -> IsNone(step.reason) \/ Falsy(step.message)
      [] OTHER -> FALSE

StepIds(steps) == [i \in DOMAIN steps |-> steps[i].step_id]

\* len(step_ids) != len(set(step_ids))
DuplicateStepIds(steps) == Len(steps) # Cardinality(Range(StepIds(steps)))

\* some depends_on id is not a step id of the plan
DanglingDependency(steps) ==
    \E i \in DOMAIN steps : \E j \in DOMAIN steps[i].depends_on :
        steps[i].depends_on[j] \notin Range(StepIds(steps))

\* _is_dag: in_degree[step.step_id] += 1, once per depends_on entry of each step
RECURSIVE DependencyCount(_, _, _)
DependencyCount(steps, sid, i) ==
    IF i > Len(steps) THEN 0
    ELSE (IF steps[i].step_id = sid THEN Len(steps[i].depends_on) ELSE 0)
         + DependencyCount(steps, sid, i + 1)

InDegree(steps) ==
    [sid \in Range(StepIds(steps)) |-> DependencyCount(steps, sid, 1)]

\* _is_dag: graph[dep_id], the dependents of dep_id, one entry per depends_on entry
RECURSIVE Dependents(_, _, _, _)
Dependents(steps, dep_id, i, j) ==
    IF i > Len(steps) THEN <<>>
    ELSE IF j > Len(steps[i].depends_on) THEN Dependents(steps, dep_id, i + 1, 1)
    ELSE (IF steps[i].depends_on[j] = dep_id THEN <<steps[i].step_id>> ELSE <<>>)
         \o Dependents(steps, dep_id, i, j + 1)

\* _is_dag: the inner loop over graph[node]; returns <<in_degree, queue>>
RECURSIVE Relax(_, _, _)
Relax(neighbors, in_degree, queue) ==
    IF neighbors = <<>> THEN <<in_degree, queue>>
    ELSE LET n == Head(neighbors)
             deg == [in_degree EXCEPT ![n] = @ - 1]
         IN Relax(Tail(neighbors), deg, IF deg[n] = 0 THEN Append(queue, n) ELSE queue)

\* _is_dag: the while loop; returns the number of processed nodes
RECURSIVE Kahn(_, _, _, _)
Kahn(steps, queue, in_degree, processed) ==
    IF queue = <<>> THEN processed
    ELSE LET node == Head(queue)
             next == Relax(Dependents(steps, node, 1, 1), in_degree, Tail(queue))
         IN Kahn(steps, next[2], next[1], processed + 1)

\* the step ids of in_degree 0, in dict order (first occurrence of each id)
RECURSIVE ZeroDegree(_, _, _)
ZeroDegree(steps, i, in_degree) ==
    IF i > Len(steps) THEN <<>>
    ELSE (IF in_degree[steps[i].step_id] = 0
             /\ \A k \in 1..(i - 1) : steps[k].step_id # steps[i].step_id
          THEN <<steps[i].step_id>> ELSE <<>>)
         \o ZeroDegree(steps, i + 1, in_degree)

\* a check that is content with one step of in_degree 0 to start from
KahnFromSomeRoot(steps, in_degree) ==
    steps = <<>> \/ ZeroDegree(steps, 1, in_degree) # <<>>

\* _is_dag: the queue of the nodes of in_degree 0, the loop, and the final comparison
KahnFrom(steps, in_degree) ==
    Kahn(steps, ZeroDegree(steps, 1, in_degree), in_degree, 0) = Len(steps)

\* a cycle check that looks only for a step that depends on itself
IsDagSelfLoopOnly(steps) ==
    \A i \in DOMAIN steps : steps[i].step_id \notin Range(steps[i].depends_on)

\* Plan._is_dag
IsDag(steps) == KahnFrom(steps, InDegree(steps))

\* a Plan that does not compare the tiers of its steps with the policy
TrustNeverBelowPolicy(metadata, steps) == FALSE

\* invariant 5: a step whose verified tier is set and below the policy's minimum
TrustBelowPolicy(metadata, steps) ==
    \E i \in DOMAIN steps :
        /\ ~IsNone(steps[i].trust)
        /\ ~IsNone(Val(steps[i].trust).verified_tier)
        /\ Val(Val(steps[i].trust).verified_tier) < metadata.trust_policy.minimum_worker_tier

\* Plan.validate_plan_invariants: the ValueError it raises, "" when it raises none
PlanInvariantError(metadata, steps) ==
    IF metadata.plan_schema_version # SchemaVersion THEN "Unsupported schema version"
    ELSE IF DuplicateStepIds(steps) THEN "Step IDs must be unique within plan"
    ELSE IF DanglingDependency(steps) THEN "depends on non-existent step"
    ELSE IF ~IsDag(steps) THEN "Dependency graph contains cycles"
    ELSE IF TrustBelowPolicy(metadata, steps) THEN "worker trust tier is below minimum required"
    ELSE ""

\* the steps are constructed first, each by PlanStep(...), then Plan(...)
ConstructionError(metadata, steps) ==
    IF \E i \in DOMAIN steps : PlanStepRaises(steps[i])
    THEN "step requires fields"
    ELSE PlanInvariantError(metadata, steps)

\* a construction that raised err ("" when it raised nothing): the Plan, or None
PlanOrError(metadata, steps, err) ==
    [error |-> err,
     plan |-> IF err = "" THEN Some([metadata |-> metadata, steps |-> steps]) ELSE None]

\* Plan(metadata=..., steps=...): the Plan, or None with the error
NewPlan(metadata, steps) ==
    PlanOrError(metadata, steps, ConstructionError(metadata, steps))

\* Plan._is_dag() as validate_plan_invariants reaches it: the step ids are unique and
\* every dependency names a step
IsDagCall ==
    /\ ret.op # "_is_dag"
    /\ ~DuplicateStepIds(built.steps)
    /\ ~DanglingDependency(built.steps)
    /\ ret' = [op |-> "_is_dag", arg |-> built.steps, raised |-> FALSE,
               out |-> Some(IsDag(built.steps))]
    /\ UNCHANGED <<workers, capability_index, tag_index, settings, now, built, lock, calls,
                   receiptVars>>

\* an externally supplied Plan (ValidatePlanRequest, the tests) is constructed from
\* the metadata and the steps drawn at the start
ConstructPlan ==
    /\ IsNone(built.result)
    /\ built' = [built EXCEPT !.result = Some(NewPlan(built.metadata, built.steps))]
    /\ UNCHANGED <<workers, capability_index, tag_index, settings, now, ret, lock, calls, receiptVars>>

-----------------------------------------------------------------------------
(* planner.py: intent analysis *)

\* The rule table, in the insertion order of the dict.  A pattern is an alternation
\* of branches; a branch is a sequence of literals joined by \s+.
INTENT_PATTERNS == <<
    \* r"generate|create|write|implement\s+code": "code.generate"
    [branches |-> <<<<<<"g","e","n","e","r","a","t","e">>>>,
                   <<<<"c","r","e","a","t","e">>>>,
                   <<<<"w","r","i","t","e">>>>,
                   <<<<"i","m","p","l","e","m","e","n","t">>, <<"c","o","d","e">>>>>>,
     task_type |-> <<"c","o","d","e",".","g","e","n","e","r","a","t","e">>],
    \* r"review|check|analyze\s+code": "code.review"
    [branches |-> <<<<<<"r","e","v","i","e","w">>>>,
                   <<<<"c","h","e","c","k">>>>,
                   <<<<"a","n","a","l","y","z","e">>, <<"c","o","d","e">>>>>>,
     task_type |-> <<"c","o","d","e",".","r","e","v","i","e","w">>],
    \* r"refactor|improve|optimize\s+code": "code.refactor"
    [branches |-> <<<<<<"r","e","f","a","c","t","o","r">>>>,
                   <<<<"i","m","p","r","o","v","e">>>>,
                   <<<<"o","p","t","i","m","i","z","e">>, <<"c","o","d","e">>>>>>,
     task_type |-> <<"c","o","d","e",".","r","e","f","a","c","t","o","r">>],
    \* r"analyze|examine|investigate\s+data": "data.analyze"
    [branches |-> <<<<<<"a","n","a","l","y","z","e">>>>,
                   <<<<"e","x","a","m","i","n","e">>>>,
                   <<<<"i","n","v","e","s","t","i","g","a","t","e">>, <<"d","a","t","a">>>>>>,
     task_type |-> <<"d","a","t","a",".","a","n","a","l","y","z","e">>],
    \* r"transform|convert|process\s+data": "data.transform"
    [branches |-> <<<<<<"t","r","a","n","s","f","o","r","m">>>>,
                   <<<<"c","o","n","v","e","r","t">>>>,
                   <<<<"p","r","o","c","e","s","s">>, <<"d","a","t","a">>>>>>,
     task_type |-> <<"d","a","t","a",".","t","r","a","n","s","f","o","r","m">>],
    \* r"extract|parse": "data.extract"
    [branches |-> <<<<<<"e","x","t","r","a","c","t">>>>,
                   <<<<"p","a","r","s","e">>>>>>,
     task_type |-> <<"d","a","t","a",".","e","x","t","r","a","c","t">>],
    \* r"summarize|summary|tldr": "text.summarize"
    [branches |-> <<<<<<"s","u","m","m","a","r","i","z","e">>>>,
                   <<<<"s","u","m","m","a","r","y">>>>,
                   <<<<"t","l","d","r">>>>>>,
     task_type |-> <<"t","e","x","t",".","s","u","m","m","a","r","i","z","e">>],
    \* r"translate|translation": "text.translate"
    [branches |-> <<<<<<"t","r","a","n","s","l","a","t","e">>>>,
                   <<<<"t","r","a","n","s","l","a","t","i","o","n">>>>>>,
     task_type |-> <<"t","e","x","t",".","t","r","a","n","s","l","a","t","e">>],
    \* r"ocr|extract\s+text|scan": "document.ocr"
    [branches |-> <<<<<<"o","c","r">>>>,
                   <<<<"e","x","t","r","a","c","t">>, <<"t","e","x","t">>>>,
                   <<<<"s","c","a","n">>>>>>,
     task_type |-> <<"d","o","c","u","m","e","n","t",".","o","c","r">>],
    \* r"invoice|receipt|bill": "document.invoice"
    [branches |-> <<<<<<"i","n","v","o","i","c","e">>>>,
                   <<<<"r","e","c","e","i","p","t">>>>,
                   <<<<"b","i","l","l">>>>>>,
     task_type |-> <<"d","o","c","u","m","e","n","t",".","i","n","v","o","i","c","e">>],
    \* r"pdf|document": "document.process"
    [branches |-> <<<<<<"p","d","f">>>>,
                   <<<<"d","o","c","u","m","e","n","t">>>>>>,
     task_type |-> <<"d","o","c","u","m","e","n","t",".","p","r","o","c","e","s","s">>],
    \* r"search|find|lookup|research": "search"
    [branches |-> <<<<<<"s","e","a","r","c","h">>>>,
                   <<<<"f","i","n","d">>>>,
                   <<<<"l","o","o","k","u","p">>>>,
                   <<<<"r","e","s","e","a","r","c","h">>>>>>,
     task_type |-> <<"s","e","a","r","c","h">>],
    \* r"generate\s+image|create\s+image|draw": "image.generate"
    [branches |-> <<<<<<"g","e","n","e","r","a","t","e">>, <<"i","m","a","g","e">>>>,
                   <<<<"c","r","e","a","t","e">>, <<"i","m","a","g","e">>>>,
                   <<<<"d","r","a","w">>>>>>,
     task_type |-> <<"i","m","a","g","e",".","g","e","n","e","r","a","t","e">>],
    \* r"analyze\s+image|image\s+analysis": "image.analyze"
    [branches |-> <<<<<<"a","n","a","l","y","z","e">>, <<"i","m","a","g","e">>>>,
                   <<<<"i","m","a","g","e">>, <<"a","n","a","l","y","s","i","s">>>>>>,
     task_type |-> <<"i","m","a","g","e",".","a","n","a","l","y","z","e">>],
    \* r"enhance|improve\s+quality": "image.enhance"
    [branches |-> <<<<<<"e","n","h","a","n","c","e">>>>,
                   <<<<"i","m","p","r","o","v","e">>, <<"q","u","a","l","i","t","y">>>>>>,
     task_type |-> <<"i","m","a","g","e",".","e","n","h","a","n","c","e">>]
>>

Generic == <<"g","e","n","e","r","i","c">>

\* re.match of a branch at position i of s: the literals, one or more whitespace
\* characters between two of them
RECURSIVE BranchMatchesAt(_, _, _)
BranchMatchesAt(s, i, parts) ==
    LET p == Head(parts)
        after == i + Len(p)
    IN /\ after - 1 <= Len(s)
       /\ SubSeq(s, i, after - 1) = p
       /\ \/ Tail(parts) = <<>>
          \/ \E k \in 1..(Len(s) - after + 1) :
                /\ \A j \in 0..(k - 1) : IsSpace(s[after + j])
                /\ BranchMatchesAt(s, after + k, Tail(parts))

\* re.search(pattern, s)
PatternMatches(rule, s) ==
    \E b \in DOMAIN rule.branches : \E i \in 1..(Len(s) + 1) :
        BranchMatchesAt(s, i, rule.branches[b])

\* a detect_task_type that lets a later rule override an earlier one
DetectTaskTypeLastMatch(intent) ==
    LET intent_lower == Lower(intent)
        hits == {r \in DOMAIN INTENT_PATTERNS : PatternMatches(INTENT_PATTERNS[r], intent_lower)}
    IN IF hits = {} THEN Generic
       ELSE INTENT_PATTERNS[CHOOSE r \in hits : \A q \in hits : r >= q].task_type

\* detect_task_type(intent): the label of the first rule that matches
DetectTaskType(intent) ==
    LET intent_lower == Lower(intent)
        hits == {r \in DOMAIN INTENT_PATTERNS : PatternMatches(INTENT_PATTERNS[r], intent_lower)}
    IN IF hits = {} THEN Generic
       ELSE INTENT_PATTERNS[CHOOSE r \in hits : \A q \in hits : r <= q].task_type

COMPLEXITY_COMPLEX_WORDS == {
    <<"m","u","l","t","i","p","l","e">>,   \* multiple
    <<"s","e","v","e","r","a","l">>,   \* several
    <<"a","l","l">>,   \* all
    <<"e","n","t","i","r","e">>,   \* entire
    <<"c","o","m","p","l","e","t","e">>,   \* complete
    <<"a","n","a","l","y","z","e">>,   \* analyze
    <<"r","e","s","e","a","r","c","h">>,   \* research
    <<"c","o","m","p","r","e","h","e","n","s","i","v","e">>,   \* comprehensive
    <<"f","u","l","l">>,   \* full
    <<"p","i","p","e","l","i","n","e">>,   \* pipeline
    <<"w","o","r","k","f","l","o","w">>,   \* workflow
    <<"s","e","q","u","e","n","c","e">>   \* sequence
}

COMPLEXITY_SIMPLE_WORDS == {
    <<"s","i","n","g","l","e">>,   \* single
    <<"o","n","e">>,   \* one
    <<"s","i","m","p","l","e">>,   \* simple
    <<"q","u","i","c","k">>,   \* quick
    <<"j","u","s","t">>,   \* just
    <<"o","n","l","y">>,   \* only
    <<"b","a","s","i","c">>   \* basic
}

StrAnd == <<" ","a","n","d"," ">>
StrComma == <<",">>

\* " and " in intent_lower or "," in intent
HasConjunction(intent) == Contains(Lower(intent), StrAnd) \/ Contains(intent, StrComma)

\* an estimate_complexity that calls complex what scores one above simple
EstimateComplexityFromOneAbove(intent, context_size) ==
    LET intent_words == Range(Split(Lower(intent)))
        complex_score ==
            Cardinality(intent_words \cap COMPLEXITY_COMPLEX_WORDS)
            + (IF HasConjunction(intent) THEN 2 ELSE 0)
            + (IF context_size > 3 THEN 1 ELSE 0)
        simple_score == Cardinality(intent_words \cap COMPLEXITY_SIMPLE_WORDS)
    IN IF complex_score >= simple_score + 1 THEN "complex"
       ELSE IF simple_score > complex_score THEN "simple"
       ELSE "medium"

\* estimate_complexity(intent, context), context_size being len(context)
EstimateComplexity(intent, context_size) ==
    LET intent_words == Range(Split(Lower(intent)))
        complex_score ==
            Cardinality(intent_words \cap COMPLEXITY_COMPLEX_WORDS)
            + (IF HasConjunction(intent) THEN 2 ELSE 0)
            + (IF context_size > 3 THEN 1 ELSE 0)
        simple_score == Cardinality(intent_words \cap COMPLEXITY_SIMPLE_WORDS)
    IN IF complex_score > simple_score + 1 THEN "complex"
       ELSE IF simple_score > complex_score THEN "simple"
       ELSE "medium"

CampaignWords == {<<"c","a","m","p","a","i","g","n">>, <<"p","r","o","j","e","c","t">>, <<"i","n","i","t","i","a","t","i","v","e">>}
StrWorkflow == <<"w","o","r","k","f","l","o","w">>

\* detect_scope(intent, complexity)
DetectScope(intent, complexity) ==
    IF \E word \in CampaignWords : Contains(Lower(intent), word) THEN "campaign"
    ELSE IF complexity = "complex" \/ Contains(Lower(intent), StrWorkflow) THEN "workflow"
    ELSE "single_task"

-----------------------------------------------------------------------------
(* planner.py: subtask splitting *)

RECURSIVE SkipSpaces(_, _)
SkipSpaces(s, i) == IF i <= Len(s) /\ IsSpace(s[i]) THEN SkipSpaces(s, i + 1) ELSE i

\* re.split(r",\s*| and ", s, flags=re.IGNORECASE): the pieces, empty ones included
RECURSIVE ReSplit(_, _, _)
ReSplit(s, i, cur) ==
    IF i > Len(s) THEN <<cur>>
    ELSE IF s[i] = "," THEN <<cur>> \o ReSplit(s, SkipSpaces(s, i + 1), <<>>)
    ELSE IF i + 4 <= Len(s) /\ Lower(SubSeq(s, i, i + 4)) = StrAnd
         THEN <<cur>> \o ReSplit(s, i + 5, <<>>)
    ELSE ReSplit(s, i + 1, Append(cur, s[i]))

StrPrimaryTask == <<"P","r","i","m","a","r","y"," ","t","a","s","k",":"," ">>
StrVerify == <<"V","e","r","i","f","y"," ","a","n","d"," ","v","a","l","i","d","a","t","e"," ","r","e","s","u","l","t","s">>
StrGather == <<"G","a","t","h","e","r"," ","d","a","t","a"," ","f","o","r",":"," ">>
StrAnalyzeGathered == <<"A","n","a","l","y","z","e"," ","g","a","t","h","e","r","e","d"," ","d","a","t","a">>
StrGenerateFinal == <<"G","e","n","e","r","a","t","e"," ","f","i","n","a","l"," ","o","u","t","p","u","t">>
StrSearch == <<"s","e","a","r","c","h">>
StrDataAnalyze == <<"d","a","t","a",".","a","n","a","l","y","z","e">>
MultiWords == {<<"a","l","l">>, <<"m","u","l","t","i","p","l","e">>, <<"s","e","v","e","r","a","l">>, <<"e","v","e","r","y">>}

\* _default_subtasks(intent, task_type)
DefaultSubtasks(intent, task_type) ==
    <<[description |-> StrPrimaryTask \o intent, task_type |-> task_type, timeout |-> 300],
      [description |-> StrVerify, task_type |-> Generic, timeout |-> 120]>>

\* the loop of _split_into_subtasks over the pieces: the non-empty stripped ones
RECURSIVE PartSubtasks(_)
PartSubtasks(parts) ==
    IF parts = <<>> THEN <<>>
    ELSE (IF Strip(Head(parts)) # <<>>
          THEN <<[description |-> Strip(Head(parts)),
                  task_type |-> DetectTaskType(Strip(Head(parts))),
                  timeout |-> 300]>>
          ELSE <<>>)
         \o PartSubtasks(Tail(parts))

\* a split that looks for the words all, multiple, several, every before it looks
\* for a conjunction
SplitIntoSubtasksPhasesFirst(intent, task_type) ==
    IF \E word \in MultiWords : Contains(Lower(intent), word)
    THEN <<[description |-> StrGather \o intent,
            task_type |-> IF Contains(Lower(intent), StrSearch) THEN StrSearch ELSE task_type,
            timeout |-> 300],
           [description |-> StrAnalyzeGathered, task_type |-> StrDataAnalyze, timeout |-> 300],
           [description |-> StrGenerateFinal, task_type |-> task_type, timeout |-> 300]>>
    ELSE IF HasConjunction(intent)
    THEN LET subtasks == PartSubtasks(ReSplit(intent, 1, <<>>))
         IN IF subtasks # <<>> THEN subtasks ELSE DefaultSubtasks(intent, task_type)
    ELSE DefaultSubtasks(intent, task_type)

\* _split_into_subtasks(intent, task_type)
SplitIntoSubtasks(intent, task_type) ==
    IF HasConjunction(intent)
    THEN LET subtasks == PartSubtasks(ReSplit(intent, 1, <<>>))
         IN IF subtasks # <<>> THEN subtasks ELSE DefaultSubtasks(intent, task_type)
    ELSE IF \E word \in MultiWords : Contains(Lower(intent), word)
    THEN <<[description |-> StrGather \o intent,
            task_type |-> IF Contains(Lower(intent), StrSearch) THEN StrSearch ELSE task_type,
            timeout |-> 300],
           [description |-> StrAnalyzeGathered, task_type |-> StrDataAnalyze, timeout |-> 300],
           [description |-> StrGenerateFinal, task_type |-> task_type, timeout |-> 300]>>
    ELSE DefaultSubtasks(intent, task_type)

-----------------------------------------------------------------------------
(* planner.py: plan synthesis *)

\* generate_step_id(): the k-th identifier drawn during one create_plan; ULIDs are
\* taken to be pairwise distinct
StepIdPool == <<"step-1", "step-2", "step-3", "step-4", "step-5", "step-6", "step-7", "step-8">>
GenerateStepId(k) == StepIdPool[k]

\* the defaults of the PlanStep fields
EmptyStep ==
    [step_id |-> "", step_type |-> "", depends_on |-> <<>>, timeout_seconds |-> None,
     worker_id |-> None, tool_name |-> None, trust |-> None, output_binding |-> None,
     wait_conditions |-> <<>>, inputs |-> <<>>, aggregation_instruction |-> None,
     reason |-> None, message |-> None]

\* "${" + sid + ".output.task_id}" and "${" + sid + ".output}"
TaskIdRef(sid) == <<"output.task_id", sid>>
OutputRef(sid) == <<"output", sid>>

\* worker.matched_capabilities[0] if worker.matched_capabilities else fallback
ToolOf(worker, fallback) ==
    IF worker.matched_capabilities # <<>> THEN worker.matched_capabilities[1] ELSE fallback

\* manifest.trust if manifest else worker.trust, manifest being registry.get(worker_id)
TrustOf(ws, worker) ==
    IF ~IsNone(WorkersGet(ws, worker.worker_id))
    THEN Val(WorkersGet(ws, worker.worker_id)).trust
    ELSE worker.trust

PlanMetadata(request, scope, confidence, cost) ==
    [plan_schema_version |-> SchemaVersion,
     intent_summary |-> Take(request.intent.content, 200),
     scope |-> scope,
     confidence |-> confidence,
     estimated_cost_units |-> cost,
     trust_policy |-> request.planning_options.trust_policy]

ExecutionStep(ws, sid, step_type, worker, tool_name, timeout, binding) ==
    [EmptyStep EXCEPT !.step_id = sid, !.step_type = step_type,
                      !.worker_id = Some(worker.worker_id),
                      !.tool_name = Some(tool_name),
                      !.trust = Some(TrustOf(ws, worker)),
                      !.output_binding = Some(binding),
                      !.timeout_seconds = timeout]

WaitStep(sid, deps, timeout) ==
    [EmptyStep EXCEPT !.step_id = sid, !.step_type = "wait_for",
                      !.depends_on = deps,
                      !.wait_conditions =
                          [i \in DOMAIN deps |->
                              [type |-> "task_completion", task_id |-> TaskIdRef(deps[i])]],
                      !.timeout_seconds = Some(timeout),
                      !.output_binding = Some("wait_result")]

AggregateStep(sid, wait_id, exec_ids, instruction, binding) ==
    [EmptyStep EXCEPT !.step_id = sid, !.step_type = "aggregate",
                      !.depends_on = <<wait_id>>,
                      !.inputs = [i \in DOMAIN exec_ids |-> OutputRef(exec_ids[i])],
                      !.aggregation_instruction = Some(instruction),
                      !.output_binding = Some(binding)]

\* a simple plan that queues and waits whatever prefer_sync says
SimpleStepsAlwaysQueued(ws, sync, worker, tool_name) ==
    <<ExecutionStep(ws, GenerateStepId(1), "queue_execution", worker, tool_name,
                    Some(300), "result"),
      WaitStep(GenerateStepId(2), <<GenerateStepId(1)>>, 600)>>

\* _create_simple_plan: the steps, for the chosen worker and tool
SimpleSteps(ws, sync, worker, tool_name) ==
    IF sync
    THEN <<ExecutionStep(ws, GenerateStepId(1), "call_worker", worker, tool_name,
                         None, "result")>>
    ELSE <<ExecutionStep(ws, GenerateStepId(1), "queue_execution", worker, tool_name,
                         Some(300), "result"),
           WaitStep(GenerateStepId(2), <<GenerateStepId(1)>>, 600)>>

\* _create_simple_plan: the Plan, or the error its construction raises
CreateSimplePlan(ws, request, task_type, found, scope) ==
    NewPlan(PlanMetadata(request, scope, 9000, None),
            SimpleSteps(ws, request.planning_options.prefer_sync, found[1],
                        ToolOf(found[1], task_type)))

\* a medium plan that honours prefer_sync as the simple plan does
CreateMediumPlanHonoursSync(ws, request, task_type, found, scope) ==
    NewPlan(PlanMetadata(request, scope, 8000, None),
            SimpleSteps(ws, request.planning_options.prefer_sync, found[1],
                        ToolOf(found[1], task_type)))

\* _create_medium_plan
CreateMediumPlan(ws, request, task_type, found, scope) ==
    NewPlan(PlanMetadata(request, scope, 8000, None),
            <<ExecutionStep(ws, GenerateStepId(1), "queue_execution", found[1],
                            ToolOf(found[1], task_type), Some(300), "primary_result"),
              WaitStep(GenerateStepId(2), <<GenerateStepId(1)>>, 600),
              AggregateStep(GenerateStepId(3), GenerateStepId(2), <<GenerateStepId(1)>>,
                            "Summarize and validate the results", "summary")>>)

\* a subtask that always goes to the best match of the whole intent
SubtaskWorkerOfIntent(subtask_workers, found) == found[1]

\* subtask_workers[0] if subtask_workers else workers[0]
SubtaskWorker(subtask_workers, found) ==
    IF subtask_workers # <<>> THEN subtask_workers[1] ELSE found[1]

\* f"subtask_{i}_result"
SubtaskBindings == <<"subtask_0_result", "subtask_1_result", "subtask_2_result",
                     "subtask_3_result", "subtask_4_result", "subtask_5_result">>
SubtaskBinding(i) == SubtaskBindings[i + 1]

\* _create_complex_plan: the loop over enumerate(subtasks), from index i on; k
\* identifiers are drawn so far
RECURSIVE SubtaskSteps(_, _, _, _, _, _)
RECURSIVE SubtaskStep(_, _, _, _, _, _, _)

\* a pass of the loop that skips the subtask no worker is matched to
SubtaskStepOwnMatchOnly(ws, request, found, subtasks, i, k, subtask_workers) ==
    IF subtask_workers = <<>>
    THEN SubtaskSteps(ws, request, found, subtasks, i + 1, k)
    ELSE <<ExecutionStep(ws, GenerateStepId(k + 1), "queue_execution",
                         subtask_workers[1],
                         ToolOf(subtask_workers[1], subtasks[i + 1].task_type),
                         Some(subtasks[i + 1].timeout), SubtaskBinding(i))>>
         \o SubtaskSteps(ws, request, found, subtasks, i + 1, k + 1)

SubtaskSteps(ws, request, found, subtasks, i, k) ==
    IF i >= Len(subtasks) THEN <<>>
    ELSE SubtaskStep(ws, request, found, subtasks, i, k,
                     MatchIntentResult(ws, subtasks[i + 1].description, DefaultConstraints,
                                       Some(request.planning_options.trust_policy)))

\* one pass of the loop, subtask_workers being the workers matched to the subtask
SubtaskStep(ws, request, found, subtasks, i, k, subtask_workers) ==
    IF subtask_workers = <<>> /\ found = <<>>
    THEN SubtaskSteps(ws, request, found, subtasks, i + 1, k)
    ELSE <<ExecutionStep(ws, GenerateStepId(k + 1), "queue_execution",
                         SubtaskWorker(subtask_workers, found),
                         ToolOf(SubtaskWorker(subtask_workers, found),
                                subtasks[i + 1].task_type),
                         Some(subtasks[i + 1].timeout), SubtaskBinding(i))>>
         \o SubtaskSteps(ws, request, found, subtasks, i + 1, k + 1)

StrNoSubtaskWorkers == <<"C","o","u","l","d"," ","n","o","t"," ","f","i","n","d"," ","w","o","r","k","e","r","s"," ","f","o","r"," ","a","n","y"," ","s","u","b","t","a","s","k">>

\* a complex plan that waits for the subtasks and does not aggregate them
ComplexStepsNoAggregate(exec) ==
    exec \o <<[WaitStep(GenerateStepId(Len(exec) + 1), StepIds(exec), 900)
                 EXCEPT !.output_binding = Some("all_results")]>>

\* _create_complex_plan: the steps, exec being the execution steps of the subtasks
ComplexSteps(exec) ==
    IF exec = <<>>
    THEN <<[EmptyStep EXCEPT !.step_id = GenerateStepId(1),
                             !.step_type = "escalate",
                             !.reason = Some("no_capable_workers"),
                             !.message = Some(StrNoSubtaskWorkers)]>>
    ELSE exec
         \o <<[WaitStep(GenerateStepId(Len(exec) + 1), StepIds(exec), 900)
                 EXCEPT !.output_binding = Some("all_results")],
              AggregateStep(GenerateStepId(Len(exec) + 2), GenerateStepId(Len(exec) + 1),
                            StepIds(exec),
                            "Combine results from all subtasks into coherent output",
                            "final_result")>>

\* _create_complex_plan, once the intent is split into subtasks
ComplexPlanOf(ws, request, found, scope, subtasks) ==
    NewPlan(PlanMetadata(request, scope, 7000, Some(Len(subtasks) * 50)),
            ComplexSteps(SubtaskSteps(ws, request, found, subtasks, 0, 0)))

\* _create_complex_plan
CreateComplexPlan(ws, request, task_type, found, scope) ==
    ComplexPlanOf(ws, request, found, scope,
                  SplitIntoSubtasks(request.intent.content, task_type))

\* "Worker {id} has degraded availability", one warning per degraded match
RECURSIVE DegradedWarnings(_)
DegradedWarnings(found) ==
    IF found = <<>> THEN <<>>
    ELSE (IF Head(found).availability.status = "degraded"
          THEN <<Head(found).worker_id>> ELSE <<>>)
         \o DegradedWarnings(Tail(found))

EmptyResponse ==
    [status |-> "", plan |-> None, planning_metadata |-> None, reason |-> None,
     message |-> None, suggested_actions |-> <<>>, error_code |-> None,
     suggestions |-> <<>>]

\* _escalation_response(reason, message, suggested_actions, context)
EscalationResponse(reason, message, suggested_actions) ==
    [EmptyResponse EXCEPT !.status = "requires_escalation",
                          !.reason = Some(reason),
                          !.message = Some(message),
                          !.suggested_actions = suggested_actions]

\* a branch `if not workers` that escalates whatever allow_escalation says
NoWorkersAlwaysEscalates(request) ==
    EscalationResponse("no_capable_workers", "No workers available for task type",
                       <<"Register a worker with matching capabilities",
                         "Modify intent to match available workers",
                         "Lower trust tier requirements">>)

\* create_plan, the branch `if not workers`
NoWorkersResponse(request) ==
    IF request.planning_options.allow_escalation
    THEN EscalationResponse("no_capable_workers", "No workers available for task type",
                            <<"Register a worker with matching capabilities",
                              "Modify intent to match available workers",
                              "Lower trust tier requirements">>)
    ELSE [EmptyResponse EXCEPT !.status = "planning_failed",
                               !.error_code = Some("NO_CAPABLE_WORKERS"),
                               !.message = Some("No workers available for"),
                               !.suggestions = <<"Register appropriate workers">>]

\* create_plan, after the plan is built: the response, or the exception raised
PlanBuilt(found, made) ==
    IF made.error # ""
    THEN [raised |-> TRUE, error |-> made.error, response |-> EmptyResponse]
    ELSE [raised |-> FALSE, error |-> "",
          response |->
             [EmptyResponse EXCEPT
                 !.status = "plan_created",
                 !.plan = made.plan,
                 !.planning_metadata =
                     Some([workers_considered |-> Len(found),
                           warnings |-> DegradedWarnings(found)])]]

\* create_plan, after the intent is analysed and the workers are matched
PlanWith(ws, request, task_type, complexity, scope, found) ==
    IF found = <<>>
    THEN [raised |-> FALSE, error |-> "", response |-> NoWorkersResponse(request)]
    ELSE PlanBuilt(found,
                   CASE complexity = "simple" ->
                           CreateSimplePlan(ws, request, task_type, found, scope)
                     [] complexity = "medium" ->
                           CreateMediumPlan(ws, request, task_type, found, scope)
                     [] OTHER ->
                           CreateComplexPlan(ws, request, task_type, found, scope))

\* create_plan, once the complexity is estimated
PlanAt(ws, request, complexity) ==
    PlanWith(ws, request, DetectTaskType(request.intent.content), complexity,
             DetectScope(request.intent.content, complexity),
             MatchIntentResult(ws, request.intent.content, DefaultConstraints,
                               Some(request.planning_options.trust_policy)))

\* create_plan, the body of its try block: the response it returns, or the
\* exception it raises.  context_data always has the three keys memorygate_refs,
\* asyncgate_task_refs and constraints.
TryPlan(ws, request) ==
    PlanAt(ws, request, EstimateComplexity(request.intent.content, 3))

\* create_plan, the handler `except Exception as e`
ExceptResponse(request, error) ==
    IF request.planning_options.allow_escalation
    THEN EscalationResponse("other", error,
                            <<"Retry with simpler intent", "Check system status">>)
    ELSE [EmptyResponse EXCEPT !.status = "planning_failed",
                               !.error_code = Some("PLANNING_ERROR"),
                               !.message = Some(error)]

\* a create_plan whose try block has no handler: what it raises reaches the caller
RespondUnhandled(request, tried) ==
    [raised |-> tried.raised,
     out |-> IF tried.raised THEN None ELSE Some(tried.response)]

\* create_plan: the response of the try block, or of the handler `except Exception`
\* when the block raised; nothing is raised to the caller
Respond(request, tried) ==
    [raised |-> FALSE,
     out |-> Some(IF tried.raised THEN ExceptResponse(request, tried.error)
                  ELSE tried.response)]

\* what the caller of create_plan observes
Returned(request, outcome) ==
    [op |-> "create_plan", arg |-> request, raised |-> outcome.raised, out |-> outcome.out]

\* Planner.create_plan(request)
CreatePlan(request) ==
    /\ ret' = Returned(request, Respond(request, TryPlan(workers, request)))
    /\ UNCHANGED <<workers, capability_index, tag_index, settings, now, built, lock, calls, receiptVars>>

\* create_plan up to `workers = await self.registry.match_intent(...)`: the task
\* holds the list of matches; the event loop may run other tasks before it goes on
CreatePlanMatch(t, request) ==
    /\ calls[t].pc = "idle"
    /\ calls' = [calls EXCEPT ![t] =
                    [op |-> "create_plan",
                     arg |-> <<request,
                               MatchIntentResult(workers, request.intent.content,
                                                 DefaultConstraints,
                                                 Some(request.planning_options.trust_policy))>>,
                     pc |-> "matched"]]
    /\ UNCHANGED <<workers, capability_index, tag_index, settings, now, ret, built, lock,
                   receiptVars>>

\* create_plan from `if not workers` on: the Plan is built from the matches the task
\* holds and from the registry as it is by now
CreatePlanSynthesize(t) ==
    /\ calls[t].pc = "matched" /\ calls[t].op = "create_plan"
    /\ ret' = Returned(calls[t].arg[1],
                       Respond(calls[t].arg[1],
                               PlanWith(workers, calls[t].arg[1],
                                        DetectTaskType(calls[t].arg[1].intent.content),
                                        EstimateComplexity(calls[t].arg[1].intent.content, 3),
                                        DetectScope(calls[t].arg[1].intent.content,
                                                    EstimateComplexity(
                                                        calls[t].arg[1].intent.content, 3)),
                                        calls[t].arg[2])))
    /\ calls' = [calls EXCEPT ![t] = Idle]
    /\ UNCHANGED <<workers, capability_index, tag_index, settings, now, built, lock,
                   receiptVars>>

\* _create_complex_plan(request, task_type, workers, scope), found being the list
\* `workers` it is handed, and its Plan returned as create_plan returns the Plan of
\* the synthesis (status plan_created, or the handler's response when it raised)
CreateComplexPlanCall(request, found) ==
    /\ ret' = [op |-> "_create_complex_plan", arg |-> <<request, found>>, raised |-> FALSE,
               out |-> Respond(request,
                               PlanBuilt(found,
                                         CreateComplexPlan(workers, request,
                                                           DetectTaskType(request.intent.content),
                                                           found,
                                                           DetectScope(request.intent.content,
                                                                       "complex")))).out]
    /\ UNCHANGED <<workers, capability_index, tag_index, settings, now, built, lock, calls,
                   receiptVars>>

-----------------------------------------------------------------------------
(* planner.py: validation of a constructed Plan *)

\* Settings.max_plan_steps: Field(default=20, ge=1, le=100)
DefaultMaxPlanSteps == 20

NoTerminalStep == "Plan has no terminal step (aggregate or escalate)"
TooManySteps == "Plan has too many steps"

\* the warning "Step {step_id} claims verified tier but has no verification"
ClaimsVerified(step) == <<"claims verified tier but has no verification", step.step_id>>

\* validate_plan: the steps that get the trust warning, in order
UnverifiedClaims(steps) ==
    SelectSeq(steps, LAMBDA step :
        /\ ~IsNone(step.trust)
        /\ IsNone(Val(step.trust).verified_tier)
        /\ Val(step.trust).declared_tier >= VERIFIED)

\* a validate_plan that takes a warning for an error
ValidatePlanStrict(plan, max_plan_steps) ==
    LET errors == IF Len(plan.steps) > max_plan_steps THEN <<TooManySteps>> ELSE <<>>
        has_terminal == \E i \in DOMAIN plan.steps :
                            plan.steps[i].step_type \in {"aggregate", "escalate"}
        warnings == (IF has_terminal THEN <<>> ELSE <<NoTerminalStep>>)
                    \o [i \in DOMAIN UnverifiedClaims(plan.steps) |->
                           ClaimsVerified(UnverifiedClaims(plan.steps)[i])]
    IN [is_valid |-> errors = <<>> /\ warnings = <<>>, errors |-> errors,
        warnings |-> warnings]

\* validate_plan(plan), max_plan_steps being settings.max_plan_steps
ValidatePlan(plan, max_plan_steps) ==
    LET errors == IF Len(plan.steps) > max_plan_steps THEN <<TooManySteps>> ELSE <<>>
        has_terminal == \E i \in DOMAIN plan.steps :
                            plan.steps[i].step_type \in {"aggregate", "escalate"}
        warnings == (IF has_terminal THEN <<>> ELSE <<NoTerminalStep>>)
                    \o [i \in DOMAIN UnverifiedClaims(plan.steps) |->
                           ClaimsVerified(UnverifiedClaims(plan.steps)[i])]
    IN [is_valid |-> errors = <<>>, errors |-> errors, warnings |-> warnings]

\* validate_plan called on the Plan that was constructed
ValidatePlanCall ==
    /\ ~IsNone(built.result)
    /\ ~IsNone(Val(built.result).plan)
    /\ ret' = [op |-> "validate_plan", arg |-> Val(Val(built.result).plan),
               raised |-> FALSE,
               out |-> Some(ValidatePlan(Val(Val(built.result).plan),
                                         settings.max_plan_steps))]
    /\ UNCHANGED <<workers, capability_index, tag_index, settings, now, built, lock, calls,
                   receiptVars>>

-----------------------------------------------------------------------------
(* planner.py: the analysis functions called on their own *)

\* detect_task_type(intent)
DetectTaskTypeCall(intent) ==
    /\ ret' = [op |-> "detect_task_type", arg |-> intent, raised |-> FALSE,
               out |-> Some(DetectTaskType(intent))]
    /\ UNCHANGED <<workers, capability_index, tag_index, settings, now, built, lock, calls,
                   receiptVars>>

\* estimate_complexity(intent, context), context being a dict of context_size entries
EstimateComplexityCall(intent, context_size) ==
    /\ ret' = [op |-> "estimate_complexity", arg |-> <<intent, context_size>>,
               raised |-> FALSE, out |-> Some(EstimateComplexity(intent, context_size))]
    /\ UNCHANGED <<workers, capability_index, tag_index, settings, now, built, lock, calls,
                   receiptVars>>

\* Planner._split_into_subtasks(intent, task_type)
SplitIntoSubtasksCall(intent, task_type) ==
    /\ ret' = [op |-> "_split_into_subtasks", arg |-> <<intent, task_type>>,
               raised |-> FALSE, out |-> Some(SplitIntoSubtasks(intent, task_type))]
    /\ UNCHANGED <<workers, capability_index, tag_index, settings, now, built, lock, calls,
                   receiptVars>>

-----------------------------------------------------------------------------
(* receipts.py: emission of receipts to the ledger, and the plan endpoint of api.py
   that emits them.  The ledger is outside the program: what it does with a request
   is a fault drawn for that request. *)

\* emit_receipt_with_retry(max_retries=3)
MaxRetries == 3
\* retry_worker: `for _ in range(min(10, len(_retry_queue)))`
ReceiptsPerCycle == 10
\* retry_worker: `if item["retry_count"] < 10`
RetryLimit == 10
\* _retry_queue = deque(maxlen=1000)
QueueMaxLen == 1000

\* none: the ledger handles the request; down: it answers 503; unreachable: the
\* request does not arrive; slow: it stores the receipt and the answer times out;
\* invalid: it rejects the receipt
Faults == {"none", "down", "unreachable", "slow", "invalid"}

\* the status code the client of POST /receipts gets, 0 when it gets no answer
LedgerAnswer(fault, stored) ==
    CASE fault = "none" -> IF stored THEN 409 ELSE 200
      [] fault = "down" -> 503
      [] fault = "invalid" -> 422
      [] OTHER -> 0

\* the ledger has the receipt after the request
LedgerStores(fault, stored) == stored \/ fault \in {"none", "slow"}

\* an emitter that takes a rejected receipt for a failed attempt like any other
RECURSIVE EmitAttemptRetriesRejected(_, _, _)
EmitAttemptRetriesRejected(faults, attempt, stored) ==
    IF attempt = MaxRetries
    THEN [stored |-> stored, raised |-> TRUE, queued |-> TRUE, posts |-> attempt]
    ELSE CASE LedgerAnswer(faults[attempt + 1], stored) \in 200..399 ->
                 [stored |-> TRUE, raised |-> FALSE, queued |-> FALSE, posts |-> attempt + 1]
           [] LedgerAnswer(faults[attempt + 1], stored) = 409 ->
                 [stored |-> stored, raised |-> FALSE, queued |-> FALSE,
                  posts |-> attempt + 1]
           [] OTHER ->
                 EmitAttemptRetriesRejected(faults, attempt + 1,
                                            LedgerStores(faults[attempt + 1], stored))

\* emit_receipt_with_retry, from the given attempt on: whether the ledger has the
\* receipt in the end, whether ReceiptEmissionError is raised, whether the receipt
\* is queued for the retry worker, and how many requests were posted
RECURSIVE EmitAttempt(_, _, _)
EmitAttempt(faults, attempt, stored) ==
    IF attempt = MaxRetries
    THEN [stored |-> stored, raised |-> TRUE, queued |-> TRUE, posts |-> attempt]
    ELSE CASE LedgerAnswer(faults[attempt + 1], stored) \in 200..399 ->
                 [stored |-> TRUE, raised |-> FALSE, queued |-> FALSE, posts |-> attempt + 1]
           [] LedgerAnswer(faults[attempt + 1], stored) = 409 ->
                 [stored |-> stored, raised |-> FALSE, queued |-> FALSE,
                  posts |-> attempt + 1]
           [] LedgerAnswer(faults[attempt + 1], stored) \in {400, 422} ->
                 [stored |-> stored, raised |-> TRUE, queued |-> FALSE,
                  posts |-> attempt + 1]
           [] OTHER ->
                 EmitAttempt(faults, attempt + 1,
                             LedgerStores(faults[attempt + 1], stored))

\* _queue_for_retry: append to the deque, which drops its oldest item when full
QueueForRetry(queue, receipt_id) ==
    LET item == [receipt_id |-> receipt_id, retry_count |-> 0]
    IN IF Len(queue) = QueueMaxLen THEN Append(Tail(queue), item) ELSE Append(queue, item)

\* emit_plan_receipt / emit_escalation_receipt: a new receipt goes through
\* emit_receipt_with_retry
EmitReceiptWithRetry(faults) ==
    /\ issued' = issued + 1
    /\ ledger' = IF EmitAttempt(faults, 0, FALSE).stored
                 THEN ledger \cup {issued + 1} ELSE ledger
    /\ retry_queue' = IF EmitAttempt(faults, 0, FALSE).queued
                      THEN QueueForRetry(retry_queue, issued + 1) ELSE retry_queue

\* the emitter called on its own, for a created plan or an escalation
EmitReceipt(faults) ==
    /\ issued < MaxReceipts
    /\ EmitReceiptWithRetry(faults)
    /\ UNCHANGED <<workers, capability_index, tag_index, settings, now, ret, built,
                   lock, calls, ledger_accepts, served>>

\* emit_receipt_with_retry(memorygate_url, tenant_id, receipt_data) called on its
\* own for a new receipt: what it returns or raises, and the requests it posted
EmitReceiptWithRetryCall(faults) ==
    /\ EmitReceiptWithRetry(faults)
    /\ ret' = [op |-> "emit_receipt_with_retry", arg |-> faults,
               raised |-> EmitAttempt(faults, 0, FALSE).raised,
               out |-> IF EmitAttempt(faults, 0, FALSE).raised THEN None
                       ELSE Some(issued + 1),
               posts |-> EmitAttempt(faults, 0, FALSE).posts]
    /\ UNCHANGED <<workers, capability_index, tag_index, settings, now, built,
                   lock, calls, ledger_accepts, served>>

\* a cycle that puts a failed item back however often it has been retried
RECURSIVE RetryItemsForever(_, _, _, _)
RetryItemsForever(queue, stored, faults, n) ==
    IF n = 0 \/ queue = <<>>
    THEN [queue |-> queue, ledger |-> stored]
    ELSE IF LedgerAnswer(faults[n], Head(queue).receipt_id \in stored) \in 200..399
         THEN RetryItemsForever(Tail(queue), stored \cup {Head(queue).receipt_id},
                                faults, n - 1)
         ELSE RetryItemsForever(Append(Tail(queue),
                                       [Head(queue) EXCEPT !.retry_count = @ + 1]),
                                IF LedgerStores(faults[n], Head(queue).receipt_id \in stored)
                                THEN stored \cup {Head(queue).receipt_id} ELSE stored,
                                faults, n - 1)

\* retry_worker, one cycle: the first n items of the queue are posted again; an item
\* whose post raises goes back to the end of the queue until it has been retried
\* RetryLimit times, and is given up after that
RECURSIVE RetryItems(_, _, _, _)
RetryItems(queue, stored, faults, n) ==
    IF n = 0 \/ queue = <<>>
    THEN [queue |-> queue, ledger |-> stored]
    ELSE IF LedgerAnswer(faults[n], Head(queue).receipt_id \in stored) \in 200..399
         THEN RetryItems(Tail(queue), stored \cup {Head(queue).receipt_id}, faults, n - 1)
         ELSE RetryItems(IF Head(queue).retry_count + 1 < RetryLimit
                         THEN Append(Tail(queue),
                                     [Head(queue) EXCEPT !.retry_count = @ + 1])
                         ELSE Tail(queue),
                         IF LedgerStores(faults[n], Head(queue).receipt_id \in stored)
                         THEN stored \cup {Head(queue).receipt_id} ELSE stored,
                         faults, n - 1)

\* retry_worker: a cycle with a non-empty queue (with an empty one it does nothing)
RetryCycle(faults) ==
    /\ retry_queue # <<>>
    /\ retry_queue' = RetryItems(retry_queue, ledger, faults,
                                 Min2(ReceiptsPerCycle, Len(retry_queue))).queue
    /\ ledger' = RetryItems(retry_queue, ledger, faults,
                            Min2(ReceiptsPerCycle, Len(retry_queue))).ledger
    /\ UNCHANGED <<workers, capability_index, tag_index, settings, now, ret, built,
                   lock, calls, issued, ledger_accepts, served>>

\* the ledger comes to accept every request
LedgerRecovers ==
    /\ ~ledger_accepts
    /\ ledger_accepts' = TRUE
    /\ UNCHANGED <<workers, capability_index, tag_index, settings, now, ret, built,
                   lock, calls, issued, retry_queue, ledger, served>>

\* a handler without its try blocks: what the store or the emitter raises leaves it
RaisedUncaught(raised) == raised

\* api.create_plan: `except Exception as e: logger.warning(...)` around the store
\* and around each emission; nothing they raise leaves the handler
Uncaught(raised) == FALSE

\* api.create_plan: the response sent for the planner's response
Reply(response, store_raised, emit_raised) ==
    IF Uncaught(store_raised) \/ Uncaught(emit_raised)
    THEN [status_code |-> 500, body |-> None, stored |-> FALSE]
    ELSE [status_code |-> 200, body |-> Some(response),
          stored |-> response.status = "plan_created" /\ ~store_raised]

\* api.create_plan, after the planner has answered: store the plan, emit the receipt
Serve(response, commit_fails, faults) ==
    IF response.status = "plan_created" /\ ~IsNone(response.plan)
    THEN /\ EmitReceiptWithRetry(faults)
         /\ served' = Some(Reply(response, commit_fails, EmitAttempt(faults, 0, FALSE).raised))
    ELSE IF response.status = "requires_escalation"
    THEN /\ EmitReceiptWithRetry(faults)
         /\ served' = Some(Reply(response, FALSE, EmitAttempt(faults, 0, FALSE).raised))
    ELSE /\ UNCHANGED <<issued, ledger, retry_queue>>
         /\ served' = Some(Reply(response, FALSE, FALSE))

\* POST /v1/plan: api.create_plan(request)
CreatePlanEndpoint(request, commit_fails, faults) ==
    /\ issued < MaxReceipts
    /\ ret' = Returned(request, Respond(request, TryPlan(workers, request)))
    /\ Serve(Val(Respond(request, TryPlan(workers, request)).out), commit_fails, faults)
    /\ UNCHANGED <<workers, capability_index, tag_index, settings, now, built,
                   lock, calls, ledger_accepts>>

-----------------------------------------------------------------------------
(* The environment: the inputs the operations are called with *)

W1 == <<"w","1">>
W2 == <<"w","2">>
WorkerIds == {W1, W2}

StrOcr == <<"o","c","r">>
StrDoc == <<"d","o","c">>

\* tool "Ocr": tool name and tag in mixed case
CapOcr == [tool_name |-> <<"O","c","r">>,
           description |-> <<"r","e","a","d"," ","t","e","x","t">>,
           semantic_tags |-> <<<<"D","o","c">>>>]
\* tool "scan": matched by "doc" through its description only
CapScan == [tool_name |-> <<"s","c","a","n">>,
            description |-> <<"S","c","a","n"," ","a"," ","d","o","c">>,
            semantic_tags |-> <<<<"i","m","g">>>>]

\* (worker_name, capabilities) of the manifests that are registered
ProfileOcr == [worker_name |-> <<"O","c","r"," ","B","o","x">>, capabilities |-> <<CapOcr>>]
ProfileLab == [worker_name |-> <<"L","a","b">>, capabilities |-> <<CapScan, CapOcr>>]

TrustInput(declared, verified, signature) ==
    [declared_tier |-> declared, verified_tier |-> verified,
     verification_status |-> "unknown", signature |-> signature]

\* a worker that declares a tier and sends no verified tier
Declares(tier) == TrustInput(tier, None, None)
\* a worker that declares TRUSTED and sends a verified tier of UNTRUSTED
Spoofed == TrustInput(TRUSTED, Some(UNTRUSTED), None)

Ready == [status |-> "ready", current_load |-> 0]
Degraded == [status |-> "degraded", current_load |-> 5]
Offline == [status |-> "offline", current_load |-> 0]

Manifests(ids, profiles, trusts, availabilities) ==
    {[worker_id |-> w, worker_name |-> p.worker_name, trust |-> t,
      capabilities |-> p.capabilities, availability |-> a,
      registered_at |-> None, last_seen |-> None] :
        w \in ids, p \in profiles, t \in trusts, a \in availabilities}

MinTierInputs == {None} \cup {Some(t) : t \in TrustTier}

SettingsChoices ==
    [allow_untrusted_workers : BOOLEAN, require_signatures_production : BOOLEAN,
     max_plan_steps : {DefaultMaxPlanSteps}]
\* the defaults of config.py
DefaultSettings ==
    [allow_untrusted_workers |-> FALSE, require_signatures_production |-> FALSE,
     max_plan_steps |-> DefaultMaxPlanSteps]

EmptyIndex == [k \in {} |-> {}]
NoCall == [op |-> "init", arg |-> None, raised |-> FALSE, out |-> None]
NoBuild == [metadata |-> None, steps |-> <<>>, result |-> None]

\* receipts.py as imported, the ledger not yet known to accept, no request served
NoReceipts ==
    /\ issued = 0
    /\ retry_queue = <<>>
    /\ ledger = {}
    /\ ledger_accepts = FALSE
    /\ served = None

\* a new WorkerRegistry in a new process
EmptyRegistry ==
    /\ workers = <<>>
    /\ capability_index = EmptyIndex
    /\ tag_index = EmptyIndex
    /\ now = 0
    /\ ret = NoCall
    /\ lock = None
    /\ calls = [t \in Tasks |-> Idle]
    /\ NoReceipts

-----------------------------------------------------------------------------
(* Spec: the registry under register and unregister, with the clock *)

RegistryManifests ==
    Manifests(WorkerIds, {ProfileOcr, ProfileLab}, {Declares(UNTRUSTED), Declares(VERIFIED)},
              {Ready})

Init ==
    /\ EmptyRegistry
    /\ settings \in SettingsChoices
    /\ built = NoBuild

Next ==
    \/ \E m \in RegistryManifests : Register(m)
    \/ \E wid \in WorkerIds : Unregister(wid)
    \/ Tick

Spec == Init /\ [][Next]_vars

-----------------------------------------------------------------------------
(* SpecSearch: the registry under register, unregister, update_worker_status and
   search *)

SearchManifests ==
    Manifests(WorkerIds, {ProfileLab}, {Declares(SANDBOX), Declares(VERIFIED), Spoofed},
              {Ready, Offline})

InitSearch ==
    /\ EmptyRegistry
    /\ settings = DefaultSettings
    /\ built = NoBuild

NextSearch ==
    \/ \E m \in SearchManifests : Register(m)
    \/ \E wid \in WorkerIds : Unregister(wid)
    \/ \E wid \in WorkerIds : \E a \in {Ready, Degraded, Offline} : UpdateWorkerStatus(wid, a)
    \/ \E q \in {StrOcr, StrDoc} : \E t \in MinTierInputs : \E l \in 1..MaxLimit :
          Search(q, t, l)

SpecSearch == InitSearch /\ [][NextSearch]_vars

-----------------------------------------------------------------------------
(* SpecPlan: Plan(metadata=..., steps=...) on drawn metadata and steps *)

PlanStepIds == {"a", "b", "c"}
PositionalIds == <<"a", "b", "c", "d", "e">>

\* depends_on lists: none, one known id, an unknown id, a repeated id, two ids
DependsOnInputs == {<<>>, <<"a">>, <<"b">>, <<"c">>, <<"x">>, <<"a", "a">>, <<"a", "b">>}

\* a call_worker step with its required fields
StepInput(sid, deps, trust) ==
    [EmptyStep EXCEPT !.step_id = sid, !.step_type = "call_worker", !.depends_on = deps,
                      !.worker_id = Some(W1), !.tool_name = Some(StrOcr), !.trust = trust]

StepTrustInputs ==
    {None, Some(Declares(SANDBOX)), Some(Declares(TRUSTED)),
     Some(TrustInput(SANDBOX, Some(TRUSTED), None)),
     Some(TrustInput(VERIFIED, Some(VERIFIED), None)), Some(Spoofed)}

MetadataInput(version, tier) ==
    [plan_schema_version |-> version, intent_summary |-> StrOcr, scope |-> "single_task",
     confidence |-> 8000, estimated_cost_units |-> None,
     trust_policy |-> [minimum_worker_tier |-> tier, require_signatures |-> FALSE]]

SeqsUpTo(S, n) == UNION {[1..k -> S] : k \in 0..n}

\* plans that vary in their ids and dependencies, no step carrying trust
StructuralPlans ==
    {[metadata |-> MetadataInput(SchemaVersion, VERIFIED), steps |-> st, result |-> None] :
        st \in SeqsUpTo({StepInput(sid, deps, None) :
                            sid \in PlanStepIds, deps \in DependsOnInputs}, MaxPlanSteps)}

\* plans of independent steps that vary in their trust, under every policy
TrustPlans ==
    {[metadata |-> MetadataInput(v, tier),
      steps |-> [i \in DOMAIN tr |-> StepInput(PositionalIds[i], <<>>, tr[i])],
      result |-> None] :
        v \in {SchemaVersion, "DG-PLAN-0002"}, tier \in TrustTier,
        tr \in SeqsUpTo(StepTrustInputs, MaxPlanSteps)}

\* a plan whose wait_for step has no wait_conditions
UnbuildablePlans ==
    {[metadata |-> MetadataInput(SchemaVersion, VERIFIED),
      steps |-> <<[EmptyStep EXCEPT !.step_id = "a", !.step_type = "wait_for"]>>,
      result |-> None]}

InitPlan ==
    /\ EmptyRegistry
    /\ settings = DefaultSettings
    /\ built \in StructuralPlans \cup TrustPlans \cup UnbuildablePlans

NextPlan == ConstructPlan

SpecPlan == InitPlan /\ [][NextPlan]_vars

-----------------------------------------------------------------------------
(* SpecPlanner: create_plan and match_intent over a registry that workers join and
   leave *)

PlannerManifests ==
    Manifests(WorkerIds, {ProfileLab}, {Declares(SANDBOX), Spoofed}, {Ready})

\* "Ocr" is medium, "just doc" simple, "scan and zip" complex; nothing matches "zip"
IntentInputs == {<<"O","c","r">>, <<"j","u","s","t"," ","d","o","c">>, <<"s","c","a","n"," ","a","n","d"," ","z","i","p">>, <<"z","i","p">>}

TrustPolicyInputs ==
    {[minimum_worker_tier |-> SANDBOX, require_signatures |-> FALSE],
     [minimum_worker_tier |-> VERIFIED, require_signatures |-> FALSE],
     [minimum_worker_tier |-> SANDBOX, require_signatures |-> TRUE]}

PlanRequests ==
    {[intent |-> [content |-> c],
      planning_options |-> [allow_escalation |-> e, prefer_sync |-> p, trust_policy |-> tp]] :
        c \in IntentInputs, e \in BOOLEAN, p \in BOOLEAN, tp \in TrustPolicyInputs}

InitPlanner ==
    /\ EmptyRegistry
    /\ settings = DefaultSettings
    /\ built = NoBuild

NextPlanner ==
    \/ \E m \in PlannerManifests : Register(m)
    \/ \E wid \in WorkerIds : Unregister(wid)
    \/ \E request \in PlanRequests : CreatePlan(request)
    \/ \E c \in IntentInputs : \E tp \in TrustPolicyInputs :
          MatchIntent(c, DefaultConstraints, Some(tp))

SpecPlanner == InitPlanner /\ [][NextPlanner]_vars

-----------------------------------------------------------------------------
(* SpecRank: search over workers whose scores for one query differ *)

\* tool "Doc": the query "doc" is its tool name
CapDoc == [tool_name |-> <<"D","o","c">>,
           description |-> <<"f","i","l","e","s">>,
           semantic_tags |-> <<>>]
ProfileDoc == [worker_name |-> <<"S","t","o","r","e">>, capabilities |-> <<CapDoc>>]

\* for the query "doc": "Store" has the tool (1.0), "Lab" a description that
\* contains it (0.6), "Ocr Box" a tag that contains it and nothing else (0.5)
RankManifests ==
    Manifests(WorkerIds, {ProfileDoc, ProfileLab, ProfileOcr}, {Declares(SANDBOX)}, {Ready})

NextRank ==
    \/ \E m \in RankManifests : Register(m)
    \/ \E wid \in WorkerIds : Unregister(wid)
    \/ \E q \in {StrDoc, CapOcr.tool_name} : \E l \in 1..MaxLimit : Search(q, None, l)

SpecRank == InitSearch /\ [][NextRank]_vars

-----------------------------------------------------------------------------
(* SpecMatch: match_intent under constraints and trust policies *)

\* a verified worker that sends a signature, and a sandbox worker whose signature is
\* the empty string
Signed == TrustInput(VERIFIED, None, Some(<<"s","i","g">>))
EmptySignature == TrustInput(SANDBOX, None, Some(<<>>))

MatchManifests ==
    Manifests(WorkerIds, {ProfileLab}, {Declares(SANDBOX), Signed, EmptySignature},
              {Ready, Degraded})

\* constraints: none given, require_ready, max_load 0.3
ConstraintInputs ==
    {DefaultConstraints,
     [require_ready |-> TRUE, max_load |-> 10],
     [require_ready |-> FALSE, max_load |-> 3]}

MatchPolicyInputs ==
    {None,
     Some([minimum_worker_tier |-> VERIFIED, require_signatures |-> FALSE]),
     Some([minimum_worker_tier |-> SANDBOX, require_signatures |-> TRUE])}

NextMatch ==
    \/ \E m \in MatchManifests : Register(m)
    \/ \E wid \in WorkerIds : Unregister(wid)
    \/ \E c \in ConstraintInputs : \E tp \in MatchPolicyInputs : MatchIntent(StrOcr, c, tp)

SpecMatch == InitSearch /\ [][NextMatch]_vars

-----------------------------------------------------------------------------
(* SpecTool: get_worker_for_tool over workers of differing trust and availability *)

ToolManifests ==
    Manifests(WorkerIds, {ProfileLab}, {Declares(SANDBOX), Signed, Spoofed}, {Ready, Degraded})

ToolPolicyInputs ==
    {None,
     Some([minimum_worker_tier |-> SANDBOX, require_signatures |-> FALSE]),
     Some([minimum_worker_tier |-> VERIFIED, require_signatures |-> FALSE]),
     Some([minimum_worker_tier |-> SANDBOX, require_signatures |-> TRUE])}

NextTool ==
    \/ \E m \in ToolManifests : Register(m)
    \/ \E wid \in WorkerIds : Unregister(wid)
    \/ \E wid \in WorkerIds : UpdateWorkerStatus(wid, Offline)
    \/ \E tool \in {CapOcr.tool_name, StrDoc} : \E tp \in ToolPolicyInputs :
          GetWorkerForTool(tool, tp)

SpecTool == InitSearch /\ [][NextTool]_vars

-----------------------------------------------------------------------------
(* SpecTrust: register under every setting of the trust switches, with manifests
   that send a verified tier, a status or a signature of their own *)

\* a manifest that arrives already verified: status pass, verified tier VERIFIED
Passed == [TrustInput(TRUSTED, Some(VERIFIED), None) EXCEPT !.verification_status = "pass"]

TrustManifests ==
    Manifests(WorkerIds, {ProfileOcr},
              {Declares(UNTRUSTED), Declares(SANDBOX), Declares(VERIFIED), Declares(TRUSTED),
               Signed, Passed, Spoofed},
              {Ready})

TrustQueryPolicies ==
    {Some([minimum_worker_tier |-> VERIFIED, require_signatures |-> FALSE]),
     Some([minimum_worker_tier |-> TRUSTED, require_signatures |-> FALSE])}

NextTrust ==
    \/ \E m \in TrustManifests : Register(m)
    \/ \E wid \in WorkerIds : Unregister(wid)
    \/ \E tp \in TrustQueryPolicies :
          Search(StrOcr, Some(Val(tp).minimum_worker_tier), MaxLimit)
    \/ \E tp \in TrustQueryPolicies : MatchIntent(StrOcr, DefaultConstraints, tp)
    \/ \E tp \in TrustQueryPolicies : GetWorkerForTool(StrOcr, tp)

SpecTrust == Init /\ [][NextTrust]_vars

-----------------------------------------------------------------------------
(* SpecStatus: update_worker_status on registered and unknown ids, as time passes *)

StatusManifests == Manifests(WorkerIds, {ProfileOcr, ProfileLab}, {Declares(SANDBOX)}, {Ready})

NextStatus ==
    \/ \E m \in StatusManifests : Register(m)
    \/ \E wid \in WorkerIds : Unregister(wid)
    \/ \E wid \in WorkerIds : \E a \in {Ready, Degraded, Offline} : UpdateWorkerStatus(wid, a)
    \/ Tick

SpecStatus == InitSearch /\ [][NextStatus]_vars

-----------------------------------------------------------------------------
(* SpecEndpoint: the plan endpoint over a registry, with a store and a ledger that
   may fail *)

\* the faults of the attempts of one emission, none once the ledger accepts:
\* delivered at once, delivered at the second attempt, stored but answered too late
\* and then found to be a duplicate, rejected as invalid at the first or at the last
\* attempt, and all attempts failed
EndpointFaults ==
    IF ledger_accepts THEN {<<"none", "none", "none">>}
    ELSE {<<"none", "none", "none">>, <<"down", "none", "none">>,
          <<"slow", "none", "none">>, <<"invalid", "none", "none">>,
          <<"unreachable", "down", "invalid">>, <<"down", "unreachable", "slow">>,
          <<"down", "unreachable", "down">>}

EndpointManifests == Manifests({W1}, {ProfileLab}, {Declares(SANDBOX)}, {Ready})

EndpointRequests ==
    {[intent |-> [content |-> c],
      planning_options |-> [allow_escalation |-> e, prefer_sync |-> FALSE,
                            trust_policy |-> [minimum_worker_tier |-> SANDBOX,
                                              require_signatures |-> FALSE]]] :
        c \in {<<"O","c","r">>, <<"z","i","p">>}, e \in BOOLEAN}

NextEndpoint ==
    \/ \E m \in EndpointManifests : Register(m)
    \/ \E wid \in {W1} : Unregister(wid)
    \/ \E request \in EndpointRequests : \E commit_fails \in BOOLEAN :
          \E faults \in EndpointFaults : CreatePlanEndpoint(request, commit_fails, faults)
    \/ LedgerRecovers

SpecEndpoint == InitPlanner /\ [][NextEndpoint]_vars

-----------------------------------------------------------------------------
(* SpecReceipts: the emitter and the retry worker against a ledger that fails for a
   while.  The retry worker is a task of the event loop that runs a cycle every
   interval for as long as the process lives: a cycle that stays possible happens. *)

\* the faults of a ledger that is out of order: none of them rejects a receipt
TransientFaults(n) ==
    IF ledger_accepts THEN {[i \in 1..n |-> "none"]}
    ELSE [1..n -> {"none", "down", "unreachable"}]

SomeRetryCycle == \E faults \in TransientFaults(Len(retry_queue)) : RetryCycle(faults)

NextReceipts ==
    \/ \E faults \in TransientFaults(MaxRetries) : EmitReceipt(faults)
    \/ SomeRetryCycle
    \/ LedgerRecovers

SpecReceipts == InitPlanner /\ [][NextReceipts]_vars /\ WF_vars(SomeRetryCycle)

-----------------------------------------------------------------------------
(* SpecEmit: emit_receipt_with_retry against a ledger that may fail each request in
   every way, and the retry worker *)

\* a fault for each of the requests of one call, or of one cycle
FaultsOf(n) == [1..n -> Faults]

NextEmit ==
    \/ issued < MaxReceipts
          /\ \E faults \in FaultsOf(MaxRetries) : EmitReceiptWithRetryCall(faults)
    \/ \E faults \in FaultsOf(Len(retry_queue)) : RetryCycle(faults)

SpecEmit == InitPlanner /\ [][NextEmit]_vars

-----------------------------------------------------------------------------
(* SpecBacklog: the retry worker on a queue that failed emissions have filled *)

\* receipts 1..n were emitted, every attempt failed, and each was queued
Backlog(n) == [i \in 1..n |-> [receipt_id |-> i, retry_count |-> 0]]

InitBacklog ==
    /\ workers = <<>>
    /\ capability_index = EmptyIndex
    /\ tag_index = EmptyIndex
    /\ now = 0
    /\ ret = [op |-> "init", arg |-> None, raised |-> FALSE, out |-> None]
    /\ lock = None
    /\ calls = [t \in Tasks |-> Idle]
    /\ settings = DefaultSettings
    /\ built = NoBuild
    /\ \E n \in 1..MaxBacklog : issued = n /\ retry_queue = Backlog(n)
    /\ ledger = {}
    /\ ledger_accepts = FALSE
    /\ served = None

\* the requests of one cycle or call: all handled, all answered 503, all stored
\* with the answer lost, or the first answered 503 and the others handled
BacklogFaults(n) ==
    {[i \in 1..n |-> "none"], [i \in 1..n |-> "down"], [i \in 1..n |-> "slow"],
     [i \in 1..n |-> IF i = n THEN "down" ELSE "none"]}

NextBacklog ==
    \/ \E faults \in BacklogFaults(Min2(ReceiptsPerCycle, Len(retry_queue))) :
          RetryCycle(faults)
    \/ issued < MaxReceipts
          /\ \E faults \in BacklogFaults(MaxRetries) : EmitReceiptWithRetryCall(faults)

SpecBacklog == InitBacklog /\ [][NextBacklog]_vars

-----------------------------------------------------------------------------
(* SpecOverflow: emissions that fail while the retry queue is full or nearly so:
   more receipts have failed than the retry worker took off the queue *)

InitOverflow ==
    /\ workers = <<>>
    /\ capability_index = EmptyIndex
    /\ tag_index = EmptyIndex
    /\ now = 0
    /\ ret = [op |-> "init", arg |-> None, raised |-> FALSE, out |-> None]
    /\ lock = None
    /\ calls = [t \in Tasks |-> Idle]
    /\ settings = DefaultSettings
    /\ built = NoBuild
    /\ \E n \in {QueueMaxLen - 1, QueueMaxLen} : issued = n /\ retry_queue = Backlog(n)
    /\ ledger = {}
    /\ ledger_accepts = FALSE
    /\ served = None

\* every request handled, or every request answered 503
OverflowFaults(n) == {[i \in 1..n |-> "none"], [i \in 1..n |-> "down"]}

NextOverflow ==
    \/ issued < QueueMaxLen + MaxReceipts
          /\ \E faults \in OverflowFaults(MaxRetries) : EmitReceiptWithRetryCall(faults)
    \/ RetryCycle([i \in 1..ReceiptsPerCycle |-> "none"])

SpecOverflow == InitOverflow /\ [][NextOverflow]_vars

-----------------------------------------------------------------------------
(* SpecIntent: detect_task_type and estimate_complexity on drawn intents *)

IntentWords ==
    {<<"e","x","t","r","a","c","t">>,
     <<"t","e","x","t">>,
     <<"s","c","a","n">>,
     <<"O","C","R">>,
     <<"p","a","r","s","e">>,
     <<"a","n","a","l","y","z","e">>,
     <<"a","l","l">>,
     <<"j","u","s","t">>,
     <<"o","n","e">>,
     <<"i","m","a","g","e">>,
     <<"z","i","p">>}

\* a blank, a comma, " and ", a blank and a tab
IntentSeparators ==
    {<<" ">>, <<","," ">>, <<" ","a","n","d"," ">>, <<" ","\t">>}

\* the intents of tests/test_planner.py
TestIntents ==
    {<<"e","x","t","r","a","c","t"," ","t","e","x","t"," ","f","r","o","m"," ","i","m","a","g","e">>,
     <<"o","c","r"," ","t","h","i","s"," ","p","d","f">>,
     <<"d","o"," ","s","o","m","e","t","h","i","n","g"," ","r","a","n","d","o","m">>,
     <<"j","u","s","t"," ","d","o"," ","o","n","e"," ","t","h","i","n","g">>,
     <<"s","i","n","g","l","e"," ","t","a","s","k">>,
     <<"a","n","a","l","y","z","e"," ","a","l","l"," ","f","i","l","e","s"," ","i","n"," ","t","h","e"," ","p","r","o","j","e","c","t">>,
     <<"c","o","m","p","r","e","h","e","n","s","i","v","e"," ","r","e","v","i","e","w"," ","o","f"," ","m","u","l","t","i","p","l","e"," ","d","o","c","u","m","e","n","t","s">>,
     <<"d","o"," ","A"," ","a","n","d"," ","t","h","e","n"," ","B"," ","a","n","d"," ","t","h","e","n"," ","C">>,
     <<"g","e","n","e","r","a","t","e"," ","a"," ","f","u","n","c","t","i","o","n">>,
     <<"s","u","m","m","a","r","i","z","e"," ","t","h","i","s"," ","d","o","c","u","m","e","n","t">>}

\* one word, two words around a separator, and the intents of the tests
AnalysedIntents ==
    IntentWords \cup {a \o sep \o b : a \in IntentWords, sep \in IntentSeparators, b \in IntentWords}
                \cup TestIntents

\* len(context): an empty context, the three keys create_plan passes, and more
ContextSizes == {0, 3, 4}

\* a call about to be made: the intent and the size of the context
PendingCalls ==
    {[op |-> "pending", arg |-> <<intent, n>>, raised |-> FALSE, out |-> None] :
        intent \in AnalysedIntents, n \in ContextSizes}

InitIntent ==
    /\ workers = <<>>
    /\ capability_index = EmptyIndex
    /\ tag_index = EmptyIndex
    /\ now = 0
    /\ ret \in PendingCalls
    /\ lock = None
    /\ calls = [t \in Tasks |-> Idle]
    /\ NoReceipts
    /\ settings = DefaultSettings
    /\ built = NoBuild

NextIntent ==
    \/ ret.op = "pending" /\ DetectTaskTypeCall(ret.arg[1])
    \/ ret.op = "pending" /\ EstimateComplexityCall(ret.arg[1], ret.arg[2])

SpecIntent == InitIntent /\ [][NextIntent]_vars

-----------------------------------------------------------------------------
(* SpecSplit: _split_into_subtasks on drawn intents *)

\* intents made of separators alone, intents that begin or end with a separator,
\* and intents that hold "all" or "every" inside a word
SeparatorIntents ==
    {<<",">>, <<","," ">>, <<" ","a","n","d"," ">>, <<" ",","," ">>, <<",",",">>,
     <<",","\t"," ","a","n","d"," ">>,
     <<"z","i","p",",">>, <<",","z","i","p">>, <<"z","i","p"," ","A","N","D"," ","o","c","r">>,
     <<"z","i","p",","," ","a","n","d"," ","o","c","r">>,
     <<"z","i","p"," ","a","n","d"," ","a","n","d"," ","o","c","r">>,
     <<"i","n","s","t","a","l","l">>,
     <<"E","v","e","r","y"," ","s","e","a","r","c","h">>,
     <<"s","e","v","e","r","a","l",","," ","o","n","e">>,
     <<"a","l","l",","," ">>}

\* a call about to be made: the intent, and the task type create_plan detected for it
\* or the default one
PendingSplits ==
    {[op |-> "pending", arg |-> <<intent, task_type>>, raised |-> FALSE, out |-> None] :
        intent \in AnalysedIntents \cup SeparatorIntents, task_type \in {Generic, StrSearch}}

InitSplit ==
    /\ workers = <<>>
    /\ capability_index = EmptyIndex
    /\ tag_index = EmptyIndex
    /\ now = 0
    /\ ret \in PendingSplits
    /\ lock = None
    /\ calls = [t \in Tasks |-> Idle]
    /\ NoReceipts
    /\ settings = DefaultSettings
    /\ built = NoBuild

NextSplit == ret.op = "pending" /\ SplitIntoSubtasksCall(ret.arg[1], ret.arg[2])

SpecSplit == InitSplit /\ [][NextSplit]_vars

-----------------------------------------------------------------------------
(* SpecValidate: validate_plan on constructed Plans, under several ceilings *)

\* the steps a validated Plan is made of: a call with no trust, a call that declares
\* verified without verification, an aggregate, an escalate
ValidatedSteps ==
    {StepInput("", <<>>, None), StepInput("", <<>>, Some(Declares(VERIFIED))),
     [EmptyStep EXCEPT !.step_type = "aggregate", !.inputs = <<StrOcr>>],
     [EmptyStep EXCEPT !.step_type = "escalate", !.reason = Some("other"),
                       !.message = Some(StrDoc)]}

ValidatedPlans ==
    {[metadata |-> MetadataInput(SchemaVersion, SANDBOX),
      steps |-> [i \in DOMAIN st |-> [st[i] EXCEPT !.step_id = PositionalIds[i]]],
      result |-> None] : st \in SeqsUpTo(ValidatedSteps, MaxPlanSteps)}

\* max_plan_steps: the least value the setting admits, one more, and the default
CeilingInputs == {1, 2, DefaultMaxPlanSteps}

InitValidate ==
    /\ EmptyRegistry
    /\ settings \in {[DefaultSettings EXCEPT !.max_plan_steps = n] : n \in CeilingInputs}
    /\ built \in ValidatedPlans

NextValidate ==
    \/ ConstructPlan
    \/ ValidatePlanCall

SpecValidate == InitValidate /\ [][NextValidate]_vars

-----------------------------------------------------------------------------
(* SpecStep: steps of every kind, with and without the fields of their kind, and
   create_plan over workers one of which has a tool with an empty name *)

\* a tool whose name is the empty string, found through its tag
CapBlank == [tool_name |-> <<>>,
             description |-> <<"n","o"," ","n","a","m","e">>,
             semantic_tags |-> <<<<"z","i","p">>>>]
ProfileBlank == [worker_name |-> <<"B","l","a","n","k">>, capabilities |-> <<CapBlank>>]

StepManifests == Manifests({W1}, {ProfileLab, ProfileBlank}, {Declares(SANDBOX)}, {Ready})

OptionalStrInputs == {None, Some(<<>>), Some(StrOcr)}

StepShapes ==
    {[EmptyStep EXCEPT !.step_id = "a", !.step_type = k, !.worker_id = w, !.tool_name = t] :
        k \in {"call_worker", "queue_execution"}, w \in OptionalStrInputs,
        t \in OptionalStrInputs}
    \cup {[EmptyStep EXCEPT !.step_id = "a", !.step_type = "wait_for", !.wait_conditions = c] :
             c \in {<<>>, <<[type |-> "task_completion", task_id |-> TaskIdRef("a")]>>}}
    \cup {[EmptyStep EXCEPT !.step_id = "a", !.step_type = "aggregate", !.inputs = i] :
             i \in {<<>>, <<OutputRef("a")>>}}
    \cup {[EmptyStep EXCEPT !.step_id = "a", !.step_type = "escalate", !.reason = r,
                            !.message = m] :
             r \in {None, Some("other")}, m \in OptionalStrInputs}

StepPlans ==
    {[metadata |-> MetadataInput(SchemaVersion, SANDBOX), steps |-> <<step>>,
      result |-> None] : step \in StepShapes}

StepRequests ==
    {[intent |-> [content |-> c],
      planning_options |-> [allow_escalation |-> TRUE, prefer_sync |-> p,
                            trust_policy |-> [minimum_worker_tier |-> SANDBOX,
                                              require_signatures |-> FALSE]]] :
        c \in {<<"O","c","r">>, <<"z","i","p">>,
               <<"s","c","a","n"," ","a","n","d"," ","z","i","p">>},
        p \in BOOLEAN}

InitStep ==
    /\ EmptyRegistry
    /\ settings = DefaultSettings
    /\ built \in StepPlans

NextStep ==
    \/ ConstructPlan
    \/ \E m \in StepManifests : Register(m)
    \/ \E request \in StepRequests : CreatePlan(request)

SpecStep == InitStep /\ [][NextStep]_vars

-----------------------------------------------------------------------------
(* SpecDag: Plan._is_dag on steps with unique ids whose dependencies all resolve *)

DagPlans ==
    {b \in StructuralPlans : ~DuplicateStepIds(b.steps) /\ ~DanglingDependency(b.steps)}

InitDag ==
    /\ EmptyRegistry
    /\ settings = DefaultSettings
    /\ built \in DagPlans

NextDag == IsDagCall

SpecDag == InitDag /\ [][NextDag]_vars

-----------------------------------------------------------------------------
(* SpecSubtask: create_plan over workers of which one matches a subtask of the
   intent and not the intent as a whole *)

\* tool "zip": "zip" matches it, "zip and scan" does not
CapZip == [tool_name |-> <<"z","i","p">>,
           description |-> <<"p","a","c","k"," ","f","i","l","e","s">>,
           semantic_tags |-> <<<<"a","r","c">>>>]
ProfileZip == [worker_name |-> <<"P","a","c","k","e","r">>, capabilities |-> <<CapZip>>]

SubtaskManifests ==
    Manifests(WorkerIds, {ProfileLab, ProfileZip}, {Declares(SANDBOX)}, {Ready})

\* "zip and scan" is complex, "Ocr" medium, "just doc" simple
SubtaskRequests ==
    {[intent |-> [content |-> c],
      planning_options |->
          [allow_escalation |-> TRUE, prefer_sync |-> p,
           trust_policy |-> [minimum_worker_tier |-> SANDBOX, require_signatures |-> FALSE]]] :
        c \in {<<"z","i","p"," ","a","n","d"," ","s","c","a","n">>, <<"O","c","r">>, <<"j","u","s","t"," ","d","o","c">>},
        p \in BOOLEAN}

NextSubtask ==
    \/ \E m \in SubtaskManifests : Register(m)
    \/ \E wid \in WorkerIds : Unregister(wid)
    \/ \E request \in SubtaskRequests : CreatePlan(request)

SpecSubtask == InitPlanner /\ [][NextSubtask]_vars

-----------------------------------------------------------------------------
(* SpecComplex: _create_complex_plan handed the workers matched to the intent, or
   an empty list *)

ComplexRequests ==
    {r \in SubtaskRequests : EstimateComplexity(r.intent.content, 3) = "complex"}
        \cup {[intent |-> [content |-> <<"s","c","a","n"," ","a","n","d"," ","z","i","p">>],
                planning_options |->
                    [allow_escalation |-> e, prefer_sync |-> FALSE,
                     trust_policy |-> [minimum_worker_tier |-> SANDBOX,
                                       require_signatures |-> FALSE]]] : e \in BOOLEAN}

\* the list `workers`: what match_intent finds for the whole intent, or nothing
WorkersHanded(request) ==
    {<<>>, MatchIntentResult(workers, request.intent.content, DefaultConstraints,
                             Some(request.planning_options.trust_policy))}

NextComplex ==
    \/ \E m \in SubtaskManifests : Register(m)
    \/ \E wid \in WorkerIds : Unregister(wid)
    \/ \E request \in ComplexRequests : \E found \in WorkersHanded(request) :
          CreateComplexPlanCall(request, found)

SpecComplex == InitPlanner /\ [][NextComplex]_vars

-----------------------------------------------------------------------------
(* SpecMaxSteps: create_plan on requests that set planning_options.max_steps.  The
   requests of the other specifications leave it at its default, which the model
   does not carry: nothing in planner.py reads the field. *)

\* PlanningOptions.max_steps: Field(default=20, ge=1, le=100)
DefaultMaxSteps == 20

\* max_steps: the least value the field admits, one more, and the default
MaxStepsInputs == {1, 2, DefaultMaxSteps}

MaxStepsRequests ==
    {[intent |-> [content |-> c],
      planning_options |->
          [max_steps |-> n, allow_escalation |-> TRUE, prefer_sync |-> p,
           trust_policy |-> [minimum_worker_tier |-> SANDBOX, require_signatures |-> FALSE]]] :
        c \in IntentInputs, n \in MaxStepsInputs, p \in BOOLEAN}

NextMaxSteps ==
    \/ \E m \in PlannerManifests : Register(m)
    \/ \E wid \in WorkerIds : Unregister(wid)
    \/ \E request \in MaxStepsRequests : CreatePlan(request)

SpecMaxSteps == InitPlanner /\ [][NextMaxSteps]_vars

-----------------------------------------------------------------------------
(* SpecInterleave: a create_plan that other tasks overtake at its `await` after the
   match: workers are registered anew, removed and updated before it goes on *)

Planning == "t1"

\* w1 as "Lab", verified or sandbox, and w2 as "Lab", verified
InterleaveManifests ==
    Manifests({W1}, {ProfileLab}, {Declares(VERIFIED), Declares(SANDBOX)}, {Ready})
        \cup Manifests({W2}, {ProfileLab}, {Declares(VERIFIED)}, {Ready})

InterleaveRequests ==
    {[intent |-> [content |-> c],
      planning_options |->
          [allow_escalation |-> e, prefer_sync |-> FALSE,
           trust_policy |-> [minimum_worker_tier |-> tier, require_signatures |-> FALSE]]] :
        c \in {<<"O","c","r">>, <<"s","c","a","n"," ","a","n","d"," ","z","i","p">>},
        e \in BOOLEAN, tier \in {VERIFIED}}

NextInterleave ==
    \/ \E m \in InterleaveManifests : Register(m)
    \/ \E wid \in WorkerIds : Unregister(wid)
    \/ UpdateWorkerStatus(W1, Degraded)
    \/ \E request \in InterleaveRequests : CreatePlanMatch(Planning, request)
    \/ CreatePlanSynthesize(Planning)

SpecInterleave == InitPlanner /\ [][NextInterleave]_vars

-----------------------------------------------------------------------------
(* SpecTasks: two tasks that register, unregister and update the status of one
   worker id, and the readers that run in between *)

StrScan == <<"s","c","a","n">>

\* w1 as "Ocr Box" or as "Lab", and an untrusted manifest that register rejects
TaskManifests ==
    Manifests({W1}, {ProfileOcr, ProfileLab}, {Declares(SANDBOX)}, {Ready})
        \cup Manifests({W1}, {ProfileOcr}, {Declares(UNTRUSTED)}, {Ready})

InitTasks ==
    /\ EmptyRegistry
    /\ settings = DefaultSettings
    /\ built = NoBuild

NextTasks ==
    \/ \E t \in Tasks : \E m \in TaskManifests : Invoke(t, "register", m)
    \/ \E t \in Tasks : Invoke(t, "unregister", W1)
    \/ \E t \in Tasks : Invoke(t, "update_worker_status", <<W1, Degraded>>)
    \/ \E t \in Tasks : Acquire(t)
    \/ \E t \in Tasks : RegisterTask(t)
    \/ \E t \in Tasks : UnregisterTask(t)
    \/ \E t \in Tasks : UpdateWorkerStatusTask(t)
    \/ Get(W1)
    \/ Search(StrOcr, None, MaxLimit)
    \/ MatchIntent(StrOcr, DefaultConstraints, None)
    \/ \E tool \in {StrOcr, StrScan} : GetWorkerForTool(tool, None)

SpecTasks == InitTasks /\ [][NextTasks]_vars

-----------------------------------------------------------------------------
(* SpecLock: the mutating calls alone, under the scheduling of the event loop *)

\* w1 as "Ocr Box", accepted (sandbox) or rejected (untrusted)
LockManifests ==
    Manifests({W1}, {ProfileOcr}, {Declares(SANDBOX), Declares(UNTRUSTED)}, {Ready})

\* the task inside the block under the lock runs it to the end
RunLocked ==
    \E t \in Tasks : RegisterTask(t) \/ UnregisterTask(t) \/ UpdateWorkerStatusTask(t)

NextLock ==
    \/ \E t \in Tasks : \E m \in LockManifests : Invoke(t, "register", m)
    \/ \E t \in Tasks : Invoke(t, "unregister", W1)
    \/ \E t \in Tasks : Invoke(t, "update_worker_status", <<W1, Degraded>>)
    \/ \E t \in Tasks : Acquire(t)
    \/ RunLocked

\* asyncio.Lock wakes its waiters first come, first served, so a task that waits
\* for the lock gets it; the event loop runs a task that is ready to its next
\* suspension point
TaskFairness ==
    /\ \A t \in Tasks : SF_vars(Acquire(t))
    /\ WF_vars(RunLocked)

SpecLock == InitTasks /\ [][NextLock]_vars /\ TaskFairness

-----------------------------------------------------------------------------
(* The properties of Plan construction *)

\* the dependency relation of a list of steps: <<s, d>> when step s depends on d
DependsOn(steps) ==
    UNION {{<<steps[i].step_id, steps[i].depends_on[j]>> : j \in DOMAIN steps[i].depends_on} :
              i \in DOMAIN steps}

\* the pairs joined by a path of at most n + 1 edges of R
RECURSIVE PathsOf(_, _)
PathsOf(R, n) ==
    IF n = 0 THEN R
    ELSE LET shorter == PathsOf(R, n - 1)
         IN shorter \cup {<<pe[1][1], pe[2][2]>> :
                             pe \in {q \in shorter \X R : q[1][2] = q[2][1]}}

StepIdsDistinct(steps) ==
    \A i, j \in DOMAIN steps : i # j => steps[i].step_id # steps[j].step_id

DependenciesExist(steps) ==
    \A i \in DOMAIN steps : \A j \in DOMAIN steps[i].depends_on :
        \E k \in DOMAIN steps : steps[k].step_id = steps[i].depends_on[j]

Acyclic(steps) ==
    \A p \in PathsOf(DependsOn(steps), Len(steps)) : p[1] # p[2]

StructurallySound(steps) ==
    StepIdsDistinct(steps) /\ DependenciesExist(steps) /\ Acyclic(steps)

\* C1: a Plan is produced only from steps whose ids are pairwise distinct, whose
\* depends_on ids all name steps of the plan and whose dependency relation has no
\* cycle; from any other steps construction ends in an error and produces no Plan.
C1_PlanIsStructurallySound ==
    ~IsNone(built.result) =>
        /\ ~IsNone(Val(built.result).plan) => StructurallySound(built.steps)
        /\ ~StructurallySound(built.steps) =>
              Val(built.result).error # "" /\ IsNone(Val(built.result).plan)

\* a Plan of three steps is produced, the third depending on the second and the
\* second on the first
C1_Witness ==
    /\ ~IsNone(built.result)
    /\ ~IsNone(Val(built.result).plan)
    /\ Len(built.steps) = 3
    /\ \E i, j, k \in DOMAIN built.steps :
          /\ built.steps[j].depends_on = <<built.steps[i].step_id>>
          /\ built.steps[k].depends_on = <<built.steps[j].step_id>>
          /\ i # j /\ j # k

\* the tier the specification compares: the verified tier if present, else the
\* declared tier
StatedEffectiveTier(trust) ==
    IF IsNone(trust.verified_tier) THEN trust.declared_tier ELSE Val(trust.verified_tier)

\* C2: in every Plan that is produced, each step that carries trust information has
\* an effective tier (verified if present, else declared) of at least the minimum
\* tier of the plan's trust policy.
C2_StepsMeetTrustPolicy ==
    (~IsNone(built.result) /\ ~IsNone(Val(built.result).plan)) =>
        \A i \in DOMAIN built.steps :
            ~IsNone(built.steps[i].trust) =>
                StatedEffectiveTier(Val(built.steps[i].trust))
                    >= built.metadata.trust_policy.minimum_worker_tier

-----------------------------------------------------------------------------
(* The properties of the registry *)

\* the worker ids of a list of search results
ResultIds(results) == {results[i].worker_id : i \in DOMAIN results}

\* C3: search with a minimum tier returns no worker whose effective tier (verified
\* if present, else declared) is below that minimum.
C3_SearchRespectsMinTier ==
    (ret.op = "search" /\ ~IsNone(ret.arg[2])) =>
        \A i \in DOMAIN Val(ret.out) :
            StatedEffectiveTier(Val(ret.out)[i].trust) >= Val(ret.arg[2])

\* C4: no worker whose availability status is offline is in the result of search,
\* nor in the result of match_intent.
C4_OfflineNeverFound ==
    /\ ret.op = "search" =>
          \A i \in DOMAIN Val(ret.out) :
              Val(WorkersGet(workers, Val(ret.out)[i].worker_id)).availability.status
                  # "offline"
    /\ \A i \in DOMAIN workers :
          workers[i].availability.status = "offline" =>
              \A q \in {StrOcr, StrDoc} :
                  /\ workers[i].worker_id
                        \notin ResultIds(SearchResult(workers, q, None, MaxLimit))
                  /\ workers[i].worker_id
                        \notin ResultIds(MatchIntentResult(workers, q, DefaultConstraints, None))

\* a search returned one worker while another worker with the same capabilities,
\* set offline, is registered
C4_Witness ==
    /\ ret.op = "search"
    /\ Len(workers) = 2
    /\ Len(Val(ret.out)) = 1
    /\ ret.arg[3] = MaxLimit
    /\ \E i \in DOMAIN workers :
          /\ workers[i].availability.status = "offline"
          /\ workers[i].worker_id # Val(ret.out)[1].worker_id

\* the lower-cased tool names, and the lower-cased semantic tags, of a manifest
ToolKeysOf(m) == {Lower(m.capabilities[j].tool_name) : j \in DOMAIN m.capabilities}
TagKeysOf(m) ==
    UNION {{Lower(m.capabilities[j].semantic_tags[k]) :
               k \in DOMAIN m.capabilities[j].semantic_tags} : j \in DOMAIN m.capabilities}

\* the ids of the registered workers whose manifest has the tool key, the tag key
HoldersOfTool(t) == {workers[i].worker_id : i \in {k \in DOMAIN workers : t \in ToolKeysOf(workers[k])}}
HoldersOfTag(t) == {workers[i].worker_id : i \in {k \in DOMAIN workers : t \in TagKeysOf(workers[k])}}

\* C5: the tool-name index holds an id under key t exactly when the id is registered
\* and its current manifest has a capability whose lower-cased tool name is t; the
\* tag index likewise, for lower-cased semantic tags.
C5_IndexesExact ==
    /\ \A t \in DOMAIN capability_index \cup UNION {ToolKeysOf(workers[i]) : i \in DOMAIN workers} :
          IndexGet(capability_index, t) = HoldersOfTool(t)
    /\ \A t \in DOMAIN tag_index \cup UNION {TagKeysOf(workers[i]) : i \in DOMAIN workers} :
          IndexGet(tag_index, t) = HoldersOfTag(t)

\* w1 was re-registered with the tool "Ocr" alone while w2 offers "scan": the key
\* "scan" holds w2 only, the key "ocr" both
C5_Witness ==
    /\ ret.op = "register" /\ ~ret.raised
    /\ ret.arg.worker_id = W1 /\ ret.arg.capabilities = <<CapOcr>>
    /\ Len(workers) = 2
    /\ workers[1].worker_id = W1
    /\ workers[2].capabilities = <<CapScan, CapOcr>>
    /\ IndexGet(capability_index, Lower(CapScan.tool_name)) = {W2}
    /\ IndexGet(capability_index, Lower(CapOcr.tool_name)) = {W1, W2}
    /\ IndexGet(tag_index, Lower(CapScan.semantic_tags[1])) = {W2}

\* the manifest stored under an id
Stored(ws, wid) == Val(WorkersGet(ws, wid))

\* C6: a register of an id that is already registered keeps the stored registered_at,
\* sets last_seen to the time of the call and takes every other field from the newest
\* manifest.
C6_RegisteredAtKept ==
    [][\A m \in RegistryManifests :
          (Register(m) /\ ~ret'.raised /\ m.worker_id \in WorkerIdsOf(workers)) =>
              /\ Stored(workers', m.worker_id).registered_at
                    = Stored(workers, m.worker_id).registered_at
              /\ Stored(workers', m.worker_id).last_seen = Some(now)
              /\ Stored(workers', m.worker_id).worker_name = m.worker_name
              /\ Stored(workers', m.worker_id).capabilities = m.capabilities
              /\ Stored(workers', m.worker_id).availability = m.availability
              /\ Stored(workers', m.worker_id).trust.declared_tier = m.trust.declared_tier]_vars

\* C7: a register of a manifest that declares the untrusted tier while untrusted
\* registration is disabled is rejected and leaves the worker map and both indexes
\* as they were.
C7_RejectedRegisterChangesNothing ==
    [][\A m \in RegistryManifests :
          (Register(m) /\ m.trust.declared_tier = UNTRUSTED
                       /\ ~settings.allow_untrusted_workers) =>
              /\ ret'.raised /\ IsNone(ret'.out)
              /\ UNCHANGED <<workers, capability_index, tag_index>>]_vars

\* a register was rejected while a worker with the same id is registered
C7_Witness ==
    /\ ret.op = "register" /\ ret.raised
    /\ ret.arg.trust.declared_tier = UNTRUSTED
    /\ ret.arg.worker_id \in WorkerIdsOf(workers)
    /\ Stored(workers, ret.arg.worker_id).capabilities # ret.arg.capabilities

\* the ids the read operations can return, over the queries and tool names in use
Findable(ws, ci) ==
    UNION {ResultIds(SearchResult(ws, q, None, MaxLimit))
           \cup ResultIds(MatchIntentResult(ws, q, DefaultConstraints, None))
           \cup {Val(r).worker_id : r \in GetWorkerForToolResults(ws, ci, q, None) \ {None}} :
              q \in {StrOcr, StrDoc, CapScan.tool_name}}

\* C8: unregister returns true exactly when the id was registered; afterwards the id
\* is not registered, is in no set of either index and is returned by no read
\* operation; unregister of an unknown id changes nothing.
C8_UnregisterRemoves ==
    [][\A wid \in WorkerIds :
          Unregister(wid) =>
              /\ ret'.out = Some(wid \in WorkerIdsOf(workers))
              /\ IsNone(WorkersGet(workers', wid))
              /\ \A t \in DOMAIN capability_index' : wid \notin capability_index'[t]
              /\ \A t \in DOMAIN tag_index' : wid \notin tag_index'[t]
              /\ wid \notin Findable(workers', capability_index')
              /\ wid \notin WorkerIdsOf(workers) =>
                    UNCHANGED <<workers, capability_index, tag_index>>]_vars

\* w1 was unregistered, w2 stays registered and indexed
C8_Witness ==
    /\ ret.op = "unregister" /\ ret.arg = W1 /\ ret.out = Some(TRUE)
    /\ WorkerIdsOf(workers) = {W2}
    /\ IndexGet(capability_index, Lower(CapOcr.tool_name)) = {W2}

-----------------------------------------------------------------------------
(* The properties of create_plan *)

PlanStatuses == {"plan_created", "requires_escalation", "planning_failed"}

\* C9: create_plan raises nothing to its caller and returns a response whose status
\* is one of plan_created, requires_escalation and planning_failed; planning_failed
\* only when allow_escalation is false, requires_escalation only when it is true.
C9_CreatePlanTotal ==
    ret.op = "create_plan" =>
        /\ ~ret.raised
        /\ ~IsNone(ret.out)
        /\ Val(ret.out).status \in PlanStatuses
        /\ Val(ret.out).status = "planning_failed" =>
              ~ret.arg.planning_options.allow_escalation
        /\ Val(ret.out).status = "requires_escalation" =>
              ret.arg.planning_options.allow_escalation

\* the construction of the Plan raised inside create_plan, escalation being disabled:
\* the handler answered planning_failed
C9_Witness ==
    /\ ret.op = "create_plan"
    /\ ~ret.raised
    /\ Val(ret.out).status = "planning_failed"
    /\ Val(ret.out).error_code = Some("PLANNING_ERROR")

\* no registered worker matches the intent of the request under its trust policy
NoWorkerMatches(ws, request) ==
    MatchIntentResult(ws, request.intent.content, DefaultConstraints,
                      Some(request.planning_options.trust_policy)) = <<>>

\* C10: when no worker matches the intent, create_plan returns requires_escalation
\* with reason no_capable_workers, a message and at least one suggested action if
\* allow_escalation is true, and planning_failed with a non-empty error code and a
\* message if it is false; no Plan is returned in either case.
C10_NoWorkersOutcome ==
    (ret.op = "create_plan" /\ NoWorkerMatches(workers, ret.arg)) =>
        /\ ~ret.raised
        /\ IsNone(Val(ret.out).plan)
        /\ ~IsNone(Val(ret.out).message) /\ Val(Val(ret.out).message) # ""
        /\ IF ret.arg.planning_options.allow_escalation
           THEN /\ Val(ret.out).status = "requires_escalation"
                /\ Val(ret.out).reason = Some("no_capable_workers")
                /\ Len(Val(ret.out).suggested_actions) >= 1
           ELSE /\ Val(ret.out).status = "planning_failed"
                /\ ~IsNone(Val(ret.out).error_code)
                /\ Val(Val(ret.out).error_code) # ""

\* two workers are registered and the trust policy of the request excludes both:
\* planning_failed, escalation being disabled
C10_Witness ==
    /\ ret.op = "create_plan"
    /\ Len(workers) = 2
    /\ ret.arg.intent.content = CapOcr.tool_name
    /\ NoWorkerMatches(workers, ret.arg)
    /\ ~ret.arg.planning_options.allow_escalation
    /\ Val(ret.out).status = "planning_failed"
    /\ Val(ret.out).error_code = Some("NO_CAPABLE_WORKERS")

\* every registered worker has an effective tier (verified if present, else declared)
\* below the minimum tier of the policy
AllBelowPolicy(ws, trust_policy) ==
    \A i \in DOMAIN ws :
        StatedEffectiveTier(ws[i].trust) < trust_policy.minimum_worker_tier

\* C11: when every registered worker has an effective tier below the policy minimum,
\* match_intent returns an empty list for every intent, and create_plan with
\* allow_escalation true returns requires_escalation and no Plan.
C11_AllBelowPolicyEscalates ==
    /\ (ret.op = "match_intent" /\ AllBelowPolicy(workers, Val(ret.arg[3]))) =>
          Val(ret.out) = <<>>
    /\ (/\ ret.op = "create_plan"
        /\ ret.arg.planning_options.allow_escalation
        /\ AllBelowPolicy(workers, ret.arg.planning_options.trust_policy)) =>
          /\ Val(ret.out).status = "requires_escalation"
          /\ IsNone(Val(ret.out).plan)

\* the workers match_intent returns for the intent of the request under its policy
MatchedFor(ws, request) ==
    MatchIntentResult(ws, request.intent.content, DefaultConstraints,
                      Some(request.planning_options.trust_policy))

\* C12: whenever match_intent returns, for the intent of the request, at least one
\* worker whose effective tier (verified if present, else declared) meets the policy
\* minimum, create_plan returns plan_created with a Plan.  create_plan runs as one
\* step, so the registry is not mutated while the Plan is built.
C12_MatchedWorkerGivesPlan ==
    (/\ ret.op = "create_plan"
     /\ \E i \in DOMAIN MatchedFor(workers, ret.arg) :
           StatedEffectiveTier(MatchedFor(workers, ret.arg)[i].trust)
               >= ret.arg.planning_options.trust_policy.minimum_worker_tier) =>
        /\ Val(ret.out).status = "plan_created"
        /\ ~IsNone(Val(ret.out).plan)

-----------------------------------------------------------------------------
(* The properties of the registry under concurrent callers *)

\* every registered worker is indexed under each of its current tool names and tags
RegisteredAreIndexed ==
    \A i \in DOMAIN workers :
        /\ \A t \in ToolKeysOf(workers[i]) :
              workers[i].worker_id \in IndexGet(capability_index, t)
        /\ \A t \in TagKeysOf(workers[i]) :
              workers[i].worker_id \in IndexGet(tag_index, t)

\* every id an index holds is the id of a registered worker
IndexedAreRegistered ==
    /\ \A t \in DOMAIN capability_index : capability_index[t] \subseteq WorkerIdsOf(workers)
    /\ \A t \in DOMAIN tag_index : tag_index[t] \subseteq WorkerIdsOf(workers)

\* what the last read returned is drawn from the registry as it stands
ReadIsCurrent ==
    /\ ret.op = "get" => Val(ret.out) = WorkersGet(workers, ret.arg)
    /\ ret.op \in {"search", "match_intent"} =>
          \A i \in DOMAIN Val(ret.out) :
              /\ ~IsNone(WorkersGet(workers, Val(ret.out)[i].worker_id))
              /\ Val(ret.out)[i].matched_capabilities # <<>>
              /\ Range(Val(ret.out)[i].matched_capabilities) \subseteq
                    Range(ToolNames(Val(WorkersGet(workers, Val(ret.out)[i].worker_id))))
    /\ (ret.op = "get_worker_for_tool" /\ ~IsNone(Val(ret.out))) =>
          /\ Some(Val(Val(ret.out))) = WorkersGet(workers, Val(Val(ret.out)).worker_id)
          /\ Lower(ret.arg[1]) \in ToolKeysOf(Val(Val(ret.out)))

\* C13: whatever mutating calls are in progress, a reader never sees a registered
\* worker whose current capabilities are missing from the indexes, nor an index
\* entry for an id absent from the worker map, and what get, search, match_intent
\* and get_worker_for_tool return is drawn from one state of the registry, the one
\* before or the one after each mutation.
C13_ReadersSeeWholeMutations ==
    /\ RegisteredAreIndexed
    /\ IndexedAreRegistered
    /\ ReadIsCurrent

\* get_worker_for_tool("scan") returned w1 as "Lab" while a task holds the lock to
\* re-register w1 as "Ocr Box", which has no tool "scan"
C13_Witness ==
    /\ ret.op = "get_worker_for_tool"
    /\ ret.arg[1] = StrScan
    /\ ~IsNone(Val(ret.out))
    /\ Val(Val(ret.out)).worker_name = ProfileLab.worker_name
    /\ \E t \in Tasks :
          /\ calls[t].pc = "locked"
          /\ calls[t].op = "register"
          /\ calls[t].arg.worker_id = Val(Val(ret.out)).worker_id
          /\ calls[t].arg.capabilities = ProfileOcr.capabilities

\* the tasks inside the block under the lock
InCriticalSection == {t \in Tasks : calls[t].pc = "locked"}

\* at most one task is inside, the lock is held exactly by the task inside, and while
\* no task is inside the registry is whole
OneAtATime ==
    /\ Cardinality(InCriticalSection) <= 1
    /\ \A t \in Tasks : lock = Some(t) <=> t \in InCriticalSection
    /\ IsNone(lock) <=> InCriticalSection = {}
    /\ IsNone(lock) => RegisteredAreIndexed /\ IndexedAreRegistered

\* C14: at most one of register, unregister and update_worker_status is inside its
\* critical section at a time, the lock is free again after each of them, a rejected
\* register included, and under fair scheduling every mutating call in progress
\* eventually completes.
C14_MutatingCallsComplete ==
    /\ []OneAtATime
    /\ \A t \in Tasks : (calls[t].pc # "idle") ~> (calls[t].pc = "idle")

\* a register was rejected and has left the lock free while the other task waits
\* for it
C14_Witness ==
    /\ ret.op = "register"
    /\ ret.raised
    /\ IsNone(lock)
    /\ \E t \in Tasks : calls[t].pc = "acquire"

-----------------------------------------------------------------------------
(* The properties of the synthesized Plans *)

\* create_plan returned plan_created for an intent of the given complexity
PlanCreatedFor(complexity) ==
    /\ ret.op = "create_plan"
    /\ Val(ret.out).status = "plan_created"
    /\ EstimateComplexity(ret.arg.intent.content, 3) = complexity

\* the steps of the Plan create_plan returned
ReturnedSteps == Val(Val(ret.out).plan).steps

\* the steps of the given types, in plan order
StepsOfType(steps, types) == SelectSeq(steps, LAMBDA st : st.step_type \in types)

\* C15: a Plan built for a simple intent targets the top-ranked matching worker and
\* has exactly one execution step: with prefer_sync a single call_worker step and
\* nothing else; without it a queue_execution step with a 300s timeout followed by
\* exactly one wait_for step with a 600s timeout whose depends_on is exactly that
\* execution step.
C15_SimplePlanShape ==
    PlanCreatedFor("simple") =>
        /\ Len(StepsOfType(ReturnedSteps, {"call_worker", "queue_execution"})) = 1
        /\ ReturnedSteps[1].worker_id = Some(MatchedFor(workers, ret.arg)[1].worker_id)
        /\ IF ret.arg.planning_options.prefer_sync
           THEN /\ Len(ReturnedSteps) = 1
                /\ ReturnedSteps[1].step_type = "call_worker"
           ELSE /\ Len(ReturnedSteps) = 2
                /\ ReturnedSteps[1].step_type = "queue_execution"
                /\ ReturnedSteps[1].timeout_seconds = Some(300)
                /\ ReturnedSteps[2].step_type = "wait_for"
                /\ ReturnedSteps[2].timeout_seconds = Some(600)
                /\ ReturnedSteps[2].depends_on = <<ReturnedSteps[1].step_id>>

\* a simple intent planned with prefer_sync while two workers match: one call_worker
\* step on the first of them
C15_Witness ==
    /\ PlanCreatedFor("simple")
    /\ ret.arg.planning_options.prefer_sync
    /\ Len(MatchedFor(workers, ret.arg)) = 2
    /\ Len(ReturnedSteps) = 1
    /\ ReturnedSteps[1].step_type = "call_worker"

\* C16: a Plan built for a medium intent is asynchronous whatever prefer_sync says:
\* exactly three steps in order, a queue_execution step, a wait_for step depending on
\* the queue step and an aggregate step depending on the wait step, and no
\* call_worker step.
C16_MediumPlanShape ==
    PlanCreatedFor("medium") =>
        /\ Len(ReturnedSteps) = 3
        /\ ReturnedSteps[1].step_type = "queue_execution"
        /\ ReturnedSteps[2].step_type = "wait_for"
        /\ ReturnedSteps[2].depends_on = <<ReturnedSteps[1].step_id>>
        /\ ReturnedSteps[3].step_type = "aggregate"
        /\ ReturnedSteps[3].depends_on = <<ReturnedSteps[2].step_id>>
        /\ StepsOfType(ReturnedSteps, {"call_worker"}) = <<>>

\* a medium intent planned with prefer_sync set: the Plan still queues, waits and
\* aggregates
C16_Witness ==
    /\ PlanCreatedFor("medium")
    /\ ret.arg.planning_options.prefer_sync
    /\ Len(ReturnedSteps) = 3
    /\ ReturnedSteps[1].step_type = "queue_execution"
    /\ ReturnedSteps[3].aggregation_instruction = Some("Summarize and validate the results")

\* the subtasks _create_complex_plan splits the intent of the request into
SubtasksOf(request) ==
    SplitIntoSubtasks(request.intent.content, DetectTaskType(request.intent.content))

\* C17: a Plan built for a complex intent of which at least one subtask is resolved
\* to a worker has one queue_execution step per resolved subtask (every subtask is
\* resolved, to its own best match or to the best match of the whole intent),
\* exactly one wait_for step whose depends_on is the set of all those steps, and
\* exactly one aggregate step that depends on the wait step and takes the output of
\* every execution step as input.
C17_ComplexPlanShape ==
    PlanCreatedFor("complex") =>
        LET exec == StepsOfType(ReturnedSteps, {"queue_execution"})
            waits == StepsOfType(ReturnedSteps, {"wait_for"})
            aggregates == StepsOfType(ReturnedSteps, {"aggregate"})
        IN /\ Len(exec) >= 1
           /\ Len(exec) = Len(SubtasksOf(ret.arg))
           /\ Len(waits) = 1
           /\ Range(waits[1].depends_on) = Range(StepIds(exec))
           /\ Len(aggregates) = 1
           /\ aggregates[1].depends_on = <<waits[1].step_id>>
           /\ Range(aggregates[1].inputs) = {OutputRef(exec[i].step_id) : i \in DOMAIN exec}
           /\ Len(ReturnedSteps) = Len(exec) + 2

\* "scan and zip" is split into "scan", which a worker matches, and "zip", which
\* falls back to the best match of the whole intent: two execution steps, one wait,
\* one aggregate
C17_Witness ==
    /\ PlanCreatedFor("complex")
    /\ Len(SubtasksOf(ret.arg)) = 2
    /\ MatchIntentResult(workers, SubtasksOf(ret.arg)[2].description, DefaultConstraints,
                         Some(ret.arg.planning_options.trust_policy)) = <<>>
    /\ Len(ReturnedSteps) = 4
    /\ ReturnedSteps[4].step_type = "aggregate"

\* the first step of the returned Plan is a call_worker or queue_execution step
FirstStepExecutes ==
    /\ Len(ReturnedSteps) >= 1
    /\ ReturnedSteps[1].step_type \in {"call_worker", "queue_execution"}
    /\ ~IsNone(ReturnedSteps[1].worker_id)

\* C18 as stated: in every plan_created response the Plan has at least one step and
\* its first step is a call_worker or queue_execution step whose worker_id is a
\* worker returned by the registry match for the intent, the top-ranked one for a
\* simple or medium intent.
C18_FirstStepWorkerMatchesIntent ==
    (ret.op = "create_plan" /\ Val(ret.out).status = "plan_created") =>
        /\ FirstStepExecutes
        /\ Val(ReturnedSteps[1].worker_id) \in ResultIds(MatchedFor(workers, ret.arg))
        /\ ~PlanCreatedFor("complex") =>
              ReturnedSteps[1].worker_id = Some(MatchedFor(workers, ret.arg)[1].worker_id)

\* the workers match_intent returns for the first subtask of the request
MatchedForFirstSubtask(ws, request) ==
    MatchIntentResult(ws, SubtasksOf(request)[1].description, DefaultConstraints,
                      Some(request.planning_options.trust_policy))

\* C18, amended: in every plan_created response the Plan has at least one step and
\* its first step is a call_worker or queue_execution step; for a simple or medium
\* intent its worker is the top-ranked match for the intent; for a complex intent it
\* is the top-ranked match for the first subtask, and the top-ranked match for the
\* intent only when no worker matches that subtask.
C18_FirstStepWorker ==
    (ret.op = "create_plan" /\ Val(ret.out).status = "plan_created") =>
        /\ FirstStepExecutes
        /\ ReturnedSteps[1].worker_id =
              Some((IF PlanCreatedFor("complex")
                       /\ MatchedForFirstSubtask(workers, ret.arg) # <<>>
                    THEN MatchedForFirstSubtask(workers, ret.arg)
                    ELSE MatchedFor(workers, ret.arg))[1].worker_id)

\* "zip and scan" is planned while "Lab" matches the intent and "Packer" matches
\* only its first subtask "zip": the first step goes to "Packer"
C18_Witness ==
    /\ PlanCreatedFor("complex")
    /\ Len(workers) = 2
    /\ Val(ReturnedSteps[1].worker_id) \notin ResultIds(MatchedFor(workers, ret.arg))
    /\ Val(ReturnedSteps[1].worker_id) \in ResultIds(MatchedForFirstSubtask(workers, ret.arg))

-----------------------------------------------------------------------------
(* The properties of search and match_intent *)

\* the registered manifest of a search result
ManifestOf(result) == Val(WorkersGet(workers, result.worker_id))

\* the manifest has a capability whose tool name is the query, case aside
HasToolNamed(m, query) ==
    \E i \in DOMAIN m.capabilities : Lower(m.capabilities[i].tool_name) = Lower(query)

\* the manifest matches the query through its tags at most: the query is in no tool
\* name, in no description and not in the worker name, and no word of the query is a
\* word of a description
MatchedByTagsOnly(m, query) ==
    /\ ~Contains(Lower(m.worker_name), Lower(query))
    /\ \A i \in DOMAIN m.capabilities :
          /\ ~Contains(Lower(m.capabilities[i].tool_name), Lower(query))
          /\ ~Contains(Lower(m.capabilities[i].description), Lower(query))
          /\ Range(Split(Lower(query)))
                \cap Range(Split(Lower(m.capabilities[i].description))) = {}

MeetsConstraints(result, constraints, trust_policy) ==
    /\ constraints.require_ready => ManifestOf(result).availability.status = "ready"
    /\ ManifestOf(result).availability.current_load <= constraints.max_load
    /\ (~IsNone(trust_policy) /\ Val(trust_policy).require_signatures) =>
          /\ ~IsNone(ManifestOf(result).trust.signature)
          /\ Len(Val(ManifestOf(result).trust.signature)) > 0

\* what search returns for the intent under the minimum tier of the policy, limit 50
SearchedFor(intent, trust_policy) ==
    SearchResult(workers, intent,
                 IF IsNone(trust_policy) THEN None
                 ELSE Some(Val(trust_policy).minimum_worker_tier), 50)

\* C20: match_intent returns the search result for the minimum tier of the policy
\* (limit 50) with its order kept and restricted to the workers that meet every given
\* constraint: status ready if require_ready is set, current load at most max_load
\* (1.0 by default), a non-empty signature if the policy requires signatures; no
\* worker that meets them all is dropped.
C20_MatchIntentFilters ==
    ret.op = "match_intent" =>
        Val(ret.out) =
            SelectSeq(SearchedFor(ret.arg[1], ret.arg[3]),
                      LAMBDA r : MeetsConstraints(r, ret.arg[2], ret.arg[3]))

\* the policy requires signatures; of the two workers search returns, the one whose
\* signature is the empty string is dropped and the signed one is kept
C20_Witness ==
    /\ ret.op = "match_intent"
    /\ ~IsNone(ret.arg[3]) /\ Val(ret.arg[3]).require_signatures
    /\ Len(SearchedFor(ret.arg[1], ret.arg[3])) = 2
    /\ SearchedFor(ret.arg[1], ret.arg[3])[1].trust.signature = EmptySignature.signature
    /\ Len(Val(ret.out)) = 1
    /\ Val(ret.out)[1].trust.signature = Signed.signature

-----------------------------------------------------------------------------
(* The properties of get_worker_for_tool *)

\* the manifest satisfies the trust policy, its effective tier being the verified
\* tier if present, else the declared tier
SatisfiesPolicy(m, trust_policy) ==
    IsNone(trust_policy) \/
        /\ StatedEffectiveTier(m.trust) >= Val(trust_policy).minimum_worker_tier
        /\ Val(trust_policy).require_signatures =>
              ~IsNone(m.trust.signature) /\ Len(Val(m.trust.signature)) > 0

\* the registered, non-offline workers that offer the tool and satisfy the policy
QualifiedFor(tool_name, trust_policy) ==
    {m \in Range(workers) :
        /\ m.availability.status # "offline"
        /\ HasToolNamed(m, tool_name)
        /\ SatisfiesPolicy(m, trust_policy)}

\* a is strictly better than b: ready before not ready, then the higher effective
\* tier, then the lower load
StrictlyBetter(a, b) ==
    LET ra == IF a.availability.status = "ready" THEN 0 ELSE 1
        rb == IF b.availability.status = "ready" THEN 0 ELSE 1
        ta == StatedEffectiveTier(a.trust)
        tb == StatedEffectiveTier(b.trust)
    IN \/ ra < rb
       \/ ra = rb /\ ta > tb
       \/ ra = rb /\ ta = tb /\ a.availability.current_load < b.availability.current_load

\* C21: get_worker_for_tool returns None exactly when no registered, non-offline
\* worker that offers the tool satisfies the policy; otherwise the worker it returns
\* is one of them and none of them is strictly better (ready first, then the higher
\* effective tier, then the lower load).
C21_BestWorkerForTool ==
    ret.op = "get_worker_for_tool" =>
        IF QualifiedFor(ret.arg[1], ret.arg[2]) = {}
        THEN IsNone(Val(ret.out))
        ELSE /\ ~IsNone(Val(ret.out))
             /\ Val(Val(ret.out)) \in QualifiedFor(ret.arg[1], ret.arg[2])
             /\ \A c \in QualifiedFor(ret.arg[1], ret.arg[2]) :
                   ~StrictlyBetter(c, Val(Val(ret.out)))

-----------------------------------------------------------------------------
(* The properties of trust verification *)

\* register stored the manifest it returned
RegisterStoredIt ==
    /\ ret.op = "register"
    /\ ~ret.raised
    /\ WorkersGet(workers, ret.arg.worker_id) = ret.out

\* signature enforcement applies to the trust a manifest was sent with
Enforced(trust) ==
    /\ settings.require_signatures_production
    /\ trust.declared_tier >= VERIFIED
    /\ Falsy(trust.signature)

\* every stored manifest has a verified tier, and register stores the status pass
\* only for a manifest that was sent with it
VerifiedTierSetPassSupplied ==
    /\ \A i \in DOMAIN workers : ~IsNone(workers[i].trust.verified_tier)
    /\ (RegisterStoredIt /\ Val(ret.out).trust.verification_status = "pass") =>
          ret.arg.trust.verification_status = "pass"

\* C22 as stated: a manifest registered without a verified tier is stored with the
\* verified tier equal to its declared tier and the status unknown; every stored
\* manifest has a verified tier, and the status pass only if the caller supplied it.
C22_HonorSystemStored ==
    /\ VerifiedTierSetPassSupplied
    /\ (RegisterStoredIt /\ IsNone(ret.arg.trust.verified_tier)) =>
          /\ Val(ret.out).trust.verified_tier = Some(ret.arg.trust.declared_tier)
          /\ Val(ret.out).trust.verification_status = "unknown"

\* C22, amended: a manifest registered without a verified tier is stored with the
\* verified tier equal to its declared tier and the status unknown, unless signature
\* enforcement is enabled and it declares verified or trusted without a signature:
\* then it is stored with the verified tier sandbox and the status fail.  Every
\* stored manifest has a verified tier, and the status pass only if the caller
\* supplied it.
C22_HonorSystemUnlessEnforced ==
    /\ VerifiedTierSetPassSupplied
    /\ (RegisterStoredIt /\ IsNone(ret.arg.trust.verified_tier)) =>
          IF Enforced(ret.arg.trust)
          THEN /\ Val(ret.out).trust.verified_tier = Some(SANDBOX)
               /\ Val(ret.out).trust.verification_status = "fail"
          ELSE /\ Val(ret.out).trust.verified_tier = Some(ret.arg.trust.declared_tier)
               /\ Val(ret.out).trust.verification_status = "unknown"

\* under signature enforcement a manifest that declares trusted, with no verified
\* tier and no signature, was stored as sandbox with the status fail
C22_Witness ==
    /\ RegisterStoredIt
    /\ IsNone(ret.arg.trust.verified_tier)
    /\ ret.arg.trust.declared_tier = TRUSTED
    /\ Enforced(ret.arg.trust)
    /\ Val(ret.out).trust.verification_status = "fail"

\* a stored worker that claims verified or trusted without a signature while
\* signatures are enforced
UnsignedClaim(m) == Enforced(m.trust)

\* the ids of the workers a read operation returned
ReturnedIds ==
    CASE ret.op \in {"search", "match_intent"} -> ResultIds(Val(ret.out))
      [] ret.op = "get_worker_for_tool" ->
            IF IsNone(Val(ret.out)) THEN {} ELSE {Val(Val(ret.out)).worker_id}
      [] OTHER -> {}

\* the minimum tier a read operation was called with, if any
AskedMinimum ==
    CASE ret.op = "search" -> ret.arg[2]
      [] ret.op = "match_intent" ->
            IF IsNone(ret.arg[3]) THEN None ELSE Some(Val(ret.arg[3]).minimum_worker_tier)
      [] ret.op = "get_worker_for_tool" ->
            IF IsNone(ret.arg[2]) THEN None ELSE Some(Val(ret.arg[2]).minimum_worker_tier)
      [] OTHER -> None

\* no read with a minimum tier of verified or trusted returns an unsigned claim
UnsignedClaimNeverQualifies ==
    (~IsNone(AskedMinimum) /\ Val(AskedMinimum) >= VERIFIED) =>
        \A m \in Range(workers) : UnsignedClaim(m) => m.worker_id \notin ReturnedIds

\* C23: with signature enforcement enabled, a worker registered with declared tier
\* verified or trusted and no signature is stored with the status fail and the
\* verified tier sandbox, which is never above the verified tier it was submitted
\* with, and no search, match_intent or get_worker_for_tool with a minimum tier of
\* verified or trusted returns it.
C23_UnsignedClaimClampedDown ==
    /\ \A m \in Range(workers) :
          UnsignedClaim(m) => /\ m.trust.verification_status = "fail"
                              /\ m.trust.verified_tier = Some(SANDBOX)
    /\ (RegisterStoredIt /\ Enforced(ret.arg.trust) /\ ~IsNone(ret.arg.trust.verified_tier)) =>
          Val(Val(ret.out).trust.verified_tier) <= Val(ret.arg.trust.verified_tier)
    /\ UnsignedClaimNeverQualifies

-----------------------------------------------------------------------------
(* The properties of update_worker_status *)

\* the step is a call of update_worker_status: it leaves that call in ret, and it is
\* not the passing of time, which leaves ret alone
StatusCall == ret'.op = "update_worker_status" /\ now' = now

\* the manifest m with the availability replaced and last_seen refreshed, all its
\* other fields as they were
WithStatus(m, availability) ==
    [worker_id |-> m.worker_id, worker_name |-> m.worker_name,
     capabilities |-> m.capabilities, trust |-> m.trust,
     availability |-> availability,
     registered_at |-> m.registered_at, last_seen |-> Some(now)]

\* C24: update_worker_status on a registered id replaces that worker's availability,
\* refreshes its last_seen and returns true, leaving its trust, capabilities and
\* registered_at, both reverse indexes and every other worker unchanged; on an
\* unknown id it returns false and changes nothing.
C24_UpdateWorkerStatusFrame ==
    [][StatusCall =>
         /\ UNCHANGED <<capability_index, tag_index, settings>>
         /\ IF ret'.arg[1] \in WorkerIdsOf(workers)
            THEN /\ ret'.out = Some(TRUE)
                 /\ DOMAIN workers' = DOMAIN workers
                 /\ \A i \in DOMAIN workers :
                       workers'[i] = IF workers[i].worker_id = ret'.arg[1]
                                     THEN WithStatus(workers[i], ret'.arg[2])
                                     ELSE workers[i]
            ELSE /\ ret'.out = Some(FALSE)
                 /\ UNCHANGED workers]_vars

\* w1 was registered at time 0 and set offline at time 1, next to w2, which still
\* has the availability and the last_seen of its registration
C24_Witness ==
    /\ ret.op = "update_worker_status"
    /\ ret.out = Some(TRUE)
    /\ ret.arg = <<W1, Offline>>
    /\ now = 1
    /\ WorkerIdsOf(workers) = {W1, W2}
    /\ Val(WorkersGet(workers, W1)).availability = Offline
    /\ Val(WorkersGet(workers, W1)).last_seen = Some(1)
    /\ Val(WorkersGet(workers, W1)).registered_at = Some(0)
    /\ Val(WorkersGet(workers, W2)).availability = Ready
    /\ Val(WorkersGet(workers, W2)).last_seen = Some(0)

\* update_worker_status returned false for an id that is not registered
C24_WitnessUnknown ==
    /\ ret.op = "update_worker_status"
    /\ ret.out = Some(FALSE)
    /\ ret.arg[1] \notin WorkerIdsOf(workers)
    /\ workers # <<>>

-----------------------------------------------------------------------------
(* The properties of the plan endpoint and of receipt emission *)

\* the endpoint was the last operation
Served == ret.op = "create_plan" /\ ~IsNone(served)

C26_ReceiptsDelivered ==
    (<>[]ledger_accepts) =>
        \A r \in 1..MaxReceipts : (issued >= r) ~> (r \in ledger)

-----------------------------------------------------------------------------
(* The properties of intent analysis *)

\* the rules of INTENT_PATTERNS that match the lower-cased intent
MatchingRules(intent) ==
    {r \in DOMAIN INTENT_PATTERNS : PatternMatches(INTENT_PATTERNS[r], Lower(intent))}

\* r"ocr|extract\s+text|scan", the ninth rule
OcrRule == 9

\* C27: detect_task_type never fails; it returns the label of the first rule, in
\* table order, whose pattern matches the lower-cased intent, and generic exactly
\* when no rule matches.
C27_FirstMatchingRule ==
    ret.op = "detect_task_type" =>
        /\ ~ret.raised
        /\ (Val(ret.out) = Generic) <=> (MatchingRules(ret.arg) = {})
        /\ \A r \in MatchingRules(ret.arg) :
              (\A q \in MatchingRules(ret.arg) : r <= q) =>
                  Val(ret.out) = INTENT_PATTERNS[r].task_type

\* an intent that two rules match was given the label of the earlier one
C27_Witness ==
    /\ ret.op = "detect_task_type"
    /\ Cardinality(MatchingRules(ret.arg)) >= 2
    /\ \E r \in MatchingRules(ret.arg) :
          /\ r > 1
          /\ Val(ret.out) = INTENT_PATTERNS[r].task_type

\* C28: an intent that matches the OCR rule (it contains "ocr", "scan", or
\* "extract" followed by "text") is classified as document.ocr.
C28_OcrRuleGivesOcr ==
    (ret.op = "detect_task_type" /\ OcrRule \in MatchingRules(ret.arg)) =>
        Val(ret.out) = <<"d","o","c","u","m","e","n","t",".","o","c","r">>

\* the complexity words, and the simplicity words, among the words of the intent
WordsAmong(intent, vocabulary) ==
    {w \in vocabulary : \E i \in DOMAIN Split(Lower(intent)) : Split(Lower(intent))[i] = w}

StatedComplexScore(intent, context_size) ==
    Cardinality(WordsAmong(intent, COMPLEXITY_COMPLEX_WORDS))
    + (IF Contains(Lower(intent), StrAnd) \/ Contains(intent, StrComma) THEN 2 ELSE 0)
    + (IF context_size > 3 THEN 1 ELSE 0)

StatedSimpleScore(intent) == Cardinality(WordsAmong(intent, COMPLEXITY_SIMPLE_WORDS))

\* C29: estimate_complexity returns exactly one class: complex iff the complex score
\* (complexity words of the intent, plus 2 for " and " or a comma, plus 1 for a
\* context of more than 3 entries) exceeds the simple score plus 1, simple iff the
\* simple score exceeds the complex score, medium otherwise.
C29_ComplexityClass ==
    ret.op = "estimate_complexity" =>
        LET c == StatedComplexScore(ret.arg[1], ret.arg[2])
            s == StatedSimpleScore(ret.arg[1])
        IN /\ ~ret.raised
           /\ Val(ret.out) \in {"simple", "medium", "complex"}
           /\ (Val(ret.out) = "complex") <=> (c > s + 1)
           /\ (Val(ret.out) = "simple") <=> (s > c)
           /\ (Val(ret.out) = "medium") <=> (~(c > s + 1) /\ ~(s > c))

\* an intent with one complexity word and no conjunction is complex with a context of
\* four entries and medium with an empty one
C29_Witness ==
    /\ ret.op = "estimate_complexity"
    /\ ret.arg[2] = 4
    /\ StatedComplexScore(ret.arg[1], 0) = 1
    /\ StatedSimpleScore(ret.arg[1]) = 0
    /\ Val(ret.out) = "complex"

-----------------------------------------------------------------------------
(* The properties of validate_plan *)

\* C30: validate_plan on a constructed Plan returns is_valid exactly when the number
\* of steps does not exceed the configured ceiling; warnings never make the result
\* invalid, and the warning about the missing terminal step is present exactly when
\* the Plan has no aggregate and no escalate step.
C30_ValidIffWithinCeiling ==
    ret.op = "validate_plan" =>
        /\ Val(ret.out).is_valid <=> (Len(ret.arg.steps) <= settings.max_plan_steps)
        /\ (\E i \in DOMAIN Val(ret.out).warnings : Val(ret.out).warnings[i] = NoTerminalStep)
              <=> (\A i \in DOMAIN ret.arg.steps :
                      ret.arg.steps[i].step_type \notin {"aggregate", "escalate"})

\* the empty Plan is valid and carries the warning about the terminal step
C30_Witness ==
    /\ ret.op = "validate_plan"
    /\ ret.arg.steps = <<>>
    /\ Val(ret.out).is_valid
    /\ Val(ret.out).warnings = <<NoTerminalStep>>

\* a Plan of more steps than the ceiling is invalid though it ends in a terminal step
C30_WitnessInvalid ==
    /\ ret.op = "validate_plan"
    /\ Len(ret.arg.steps) > settings.max_plan_steps
    /\ ~Val(ret.out).is_valid
    /\ Val(ret.out).warnings = <<>>

-----------------------------------------------------------------------------
(* The properties of step construction *)

\* the step has the fields its kind requires
HasFieldsOfKind(step) ==
    CASE step.step_type \in {"call_worker", "queue_execution"} ->
            /\ ~IsNone(step.worker_id) /\ Len(Val(step.worker_id)) > 0
            /\ ~IsNone(step.tool_name) /\ Len(Val(step.tool_name)) > 0
      [] step.step_type = "wait_for" -> Len(step.wait_conditions) >= 1
      [] step.step_type = "aggregate" -> Len(step.inputs) >= 1
      [] step.step_type = "escalate" ->
            /\ ~IsNone(step.reason)
            /\ ~IsNone(step.message) /\ Len(Val(step.message)) > 0
      [] OTHER -> FALSE

\* C31: a step is constructed only with the fields its kind requires (a non-empty
\* worker_id and tool_name for call_worker and queue_execution, a wait condition for
\* wait_for, an input reference for aggregate, a reason and a message for escalate),
\* construction fails otherwise, and every step of every Plan create_plan returns
\* has the fields of its kind.
C31_StepsHaveFieldsOfKind ==
    /\ ~IsNone(built.result) =>
          (IsNone(Val(built.result).plan)
              <=> \E i \in DOMAIN built.steps : ~HasFieldsOfKind(built.steps[i]))
    /\ (ret.op = "create_plan" /\ ~IsNone(Val(ret.out).plan)) =>
          \A i \in DOMAIN Val(Val(ret.out).plan).steps :
              HasFieldsOfKind(Val(Val(ret.out).plan).steps[i])

\* the construction of a call_worker step with a worker and an empty tool name failed
C31_Witness ==
    /\ ~IsNone(built.result)
    /\ IsNone(Val(built.result).plan)
    /\ built.steps[1].step_type = "call_worker"
    /\ built.steps[1].worker_id = Some(StrOcr)
    /\ built.steps[1].tool_name = Some(<<>>)

\* create_plan found only the tool with the empty name and returned no Plan
C31_WitnessBlankTool ==
    /\ ret.op = "create_plan"
    /\ WorkerIdsOf(workers) = {W1}
    /\ workers[1].worker_name = ProfileBlank.worker_name
    /\ ret.arg.intent.content = <<"z","i","p">>
    /\ Val(ret.out).status = "requires_escalation"
    /\ Val(ret.out).reason = Some("other")

-----------------------------------------------------------------------------
(* The properties of the acyclicity check *)

\* C32: on steps whose dependencies all resolve, _is_dag returns true iff the
\* depends_on relation has no directed cycle: it rejects a step that depends on
\* itself and accepts acyclic steps one of which lists a dependency twice.
C32_IsDagIffNoCycle ==
    ret.op = "_is_dag" =>
        /\ Val(ret.out) <=> Acyclic(ret.arg)
        /\ (\E i \in DOMAIN ret.arg : ret.arg[i].step_id \in Range(ret.arg[i].depends_on))
              => ~Val(ret.out)

\* three steps without a cycle, one of which lists the same dependency twice, are
\* accepted
C32_Witness ==
    /\ ret.op = "_is_dag"
    /\ Val(ret.out)
    /\ Len(ret.arg) = 3
    /\ \E i \in DOMAIN ret.arg :
          /\ Len(ret.arg[i].depends_on) = 2
          /\ ret.arg[i].depends_on[1] = ret.arg[i].depends_on[2]

\* two steps that depend on each other are rejected though a third step has no
\* dependency
C32_WitnessCycle ==
    /\ ret.op = "_is_dag"
    /\ ~Val(ret.out)
    /\ \E i, j, k \in DOMAIN ret.arg :
          /\ i # j
          /\ ret.arg[i].depends_on = <<ret.arg[j].step_id>>
          /\ ret.arg[j].depends_on = <<ret.arg[i].step_id>>
          /\ ret.arg[k].depends_on = <<>>

-----------------------------------------------------------------------------
(* The complex Plan of which no subtask is resolved to a worker *)

\* _create_complex_plan was called and its loop made no execution step
ZeroSubtasksResolved ==
    /\ ret.op = "_create_complex_plan"
    /\ SubtaskSteps(workers, ret.arg[1], ret.arg[2], SubtasksOf(ret.arg[1]), 0, 0) = <<>>

MatchedTo(request, description) ==
    MatchIntentResult(workers, description, DefaultConstraints,
                      Some(request.planning_options.trust_policy))

\* C35: in a complex Plan produced by create_plan no subtask is dropped: a subtask
\* with no specific match falls back to the top-ranked worker of the top-level
\* match, which is non-empty whenever synthesis is reached, so the Plan has exactly
\* one queue_execution step per subtask (number of steps = number of subtasks + 2)
\* and the escalate-only Plan is never produced.
C35_NoSubtaskDropped ==
    PlanCreatedFor("complex") =>
        LET subtasks == SubtasksOf(ret.arg)
            found == MatchedTo(ret.arg, ret.arg.intent.content)
        IN /\ found # <<>>
           /\ Len(ReturnedSteps) = Len(subtasks) + 2
           /\ StepsOfType(ReturnedSteps, {"escalate"}) = <<>>
           /\ \A i \in DOMAIN subtasks :
                 /\ ReturnedSteps[i].step_type = "queue_execution"
                 /\ ReturnedSteps[i].output_binding = Some(SubtaskBinding(i - 1))
                 /\ MatchedTo(ret.arg, subtasks[i].description) = <<>>
                       => ReturnedSteps[i].worker_id = Some(found[1].worker_id)

\* a complex Plan one subtask of which no worker is matched to, and another is
C35_Witness ==
    /\ PlanCreatedFor("complex")
    /\ \E i \in DOMAIN SubtasksOf(ret.arg) :
          MatchedTo(ret.arg, SubtasksOf(ret.arg)[i].description) = <<>>
    /\ \E i \in DOMAIN SubtasksOf(ret.arg) :
          MatchedTo(ret.arg, SubtasksOf(ret.arg)[i].description) # <<>>
    /\ Len(StepsOfType(ReturnedSteps, {"queue_execution"})) = Len(SubtasksOf(ret.arg))


-----------------------------------------------------------------------------
(* The properties of subtask splitting *)

\* a comma, or " and " in any case, begins at position i of s
SeparatorAt(s, i) ==
    \/ s[i] = ","
    \/ i + 4 <= Len(s) /\ Lower(SubSeq(s, i, i + 4)) = StrAnd

\* the non-empty fragments of s between its separators, stripped, in order: the
\* fragment before the leftmost separator, then the fragments of what follows it
RECURSIVE Fragments(_)
Fragments(s) ==
    IF \A i \in DOMAIN s : ~SeparatorAt(s, i)
    THEN IF Strip(s) = <<>> THEN <<>> ELSE <<Strip(s)>>
    ELSE LET i == CHOOSE i \in DOMAIN s :
                      SeparatorAt(s, i) /\ \A j \in 1..(i - 1) : ~SeparatorAt(s, j)
             before == Strip(SubSeq(s, 1, i - 1))
             after == IF s[i] = "," THEN LStrip(SubSeq(s, i + 1, Len(s)))
                      ELSE SubSeq(s, i + 5, Len(s))
         IN (IF before = <<>> THEN <<>> ELSE <<before>>) \o Fragments(after)

\* the descriptions of the subtasks, in order
Descriptions(subtasks) == [i \in DOMAIN subtasks |-> subtasks[i].description]

\* the two-item default: the primary task, then verify and validate
TwoItemDefault(intent) == <<StrPrimaryTask \o intent, StrVerify>>

\* C34: subtask splitting follows a fixed priority and never yields an empty list:
\* if the intent contains " and " or a comma it is split on those separators into
\* its non-empty fragments (falling back to the two-item default if all fragments
\* are empty); else if it contains one of all/multiple/several/every the result is
\* the three phases gather, analyze, generate; else the result is the two-item
\* default (primary task, then verify and validate).
C34_SplitPriority ==
    ret.op = "_split_into_subtasks" =>
        LET intent == ret.arg[1]
            subtasks == Val(ret.out)
        IN /\ subtasks # <<>>
           /\ Descriptions(subtasks) =
                 IF \E i \in DOMAIN intent : SeparatorAt(intent, i)
                 THEN IF Fragments(intent) # <<>> THEN Fragments(intent)
                      ELSE TwoItemDefault(intent)
                 ELSE IF \E word \in MultiWords : Contains(Lower(intent), word)
                 THEN <<StrGather \o intent, StrAnalyzeGathered, StrGenerateFinal>>
                 ELSE TwoItemDefault(intent)

\* an intent that holds "all" and a separator is split at the separator, and an
\* empty fragment of it is left out
C34_Witness ==
    /\ ret.op = "_split_into_subtasks"
    /\ Contains(Lower(ret.arg[1]), <<"a","l","l">>)
    /\ Len(ReSplit(ret.arg[1], 1, <<>>)) > Len(Val(ret.out))
    /\ Descriptions(Val(ret.out)) = Fragments(ret.arg[1])

\* an intent of separators alone gives the two-item default
C34_WitnessAllEmpty ==
    /\ ret.op = "_split_into_subtasks"
    /\ \E i \in DOMAIN ret.arg[1] : SeparatorAt(ret.arg[1], i)
    /\ Descriptions(Val(ret.out)) = TwoItemDefault(ret.arg[1])

\* an intent with "all" inside a word and no separator gives the three phases
C34_WitnessPhases ==
    /\ ret.op = "_split_into_subtasks"
    /\ ret.arg[1] = <<"i","n","s","t","a","l","l">>
    /\ Len(Val(ret.out)) = 3


-----------------------------------------------------------------------------
(* The step limit of the request *)

\* C36: every Plan returned by create_plan with status plan_created has at most
\* planning_options.max_steps steps.
C36_WithinMaxSteps ==
    (ret.op = "create_plan" /\ Val(ret.out).status = "plan_created") =>
        Len(ReturnedSteps) <= ret.arg.planning_options.max_steps


-----------------------------------------------------------------------------
(* create_plan overtaken by changes of the registry *)

\* the trust the match that create_plan holds recorded for the worker
SnapshotTrust(found, wid) ==
    found[CHOOSE i \in DOMAIN found : found[i].worker_id = wid].trust

\* the response is one of the three outcomes; a Plan in it has no step whose verified
\* tier is below the minimum of the policy, and a step for a worker that is no
\* longer registered carries the trust of the match
SafeOutcome(request, found, ws, out) ==
    /\ out.status \in {"plan_created", "requires_escalation", "planning_failed"}
    /\ out.status = "plan_created" <=> ~IsNone(out.plan)
    /\ out.status = "plan_created" =>
          \A i \in DOMAIN Val(out.plan).steps :
              LET step == Val(out.plan).steps[i]
              IN ~IsNone(step.trust) =>
                    /\ ~IsNone(Val(step.trust).verified_tier)
                    /\ Val(Val(step.trust).verified_tier)
                          >= request.planning_options.trust_policy.minimum_worker_tier
                    /\ Val(step.worker_id) \notin WorkerIdsOf(ws) =>
                          Val(step.trust) = SnapshotTrust(found, Val(step.worker_id))

\* C37: when register, unregister or update_worker_status interleave with a running
\* create_plan between its worker match and its later manifest lookups (worker
\* removed, or re-registered with a lower verified tier), create_plan still ends in
\* one of its three outcomes, and any Plan it returns contains no step whose verified
\* tier is below the policy minimum; a worker that disappeared is represented by the
\* trust snapshot taken at match time.
C37_OvertakenPlanIsSafe ==
    [][CreatePlanSynthesize(Planning) =>
          /\ ~ret'.raised
          /\ SafeOutcome(calls[Planning].arg[1], calls[Planning].arg[2], workers,
                         Val(ret'.out))]_vars

\* a Plan is returned whose first step is for a worker that was removed after the
\* match
C37_Witness ==
    /\ ret.op = "create_plan"
    /\ Val(ret.out).status = "plan_created"
    /\ Val(ReturnedSteps[1].worker_id) \notin WorkerIdsOf(workers)
    /\ Val(Val(ReturnedSteps[1].trust).verified_tier) = VERIFIED

\* the matched worker was registered anew with a lower tier after the match: no Plan
C37_WitnessLowered ==
    /\ ret.op = "create_plan"
    /\ Val(ret.out).status = "requires_escalation"
    /\ Val(ret.out).reason = Some("other")
    /\ \E i \in DOMAIN workers : workers[i].trust.verified_tier = Some(SANDBOX)


-----------------------------------------------------------------------------
(* The properties of the emitter and of the retry worker *)

\* the status codes the ledger gives to the successive requests for one new receipt,
\* 0 for a request that gets no answer
RECURSIVE Answers(_, _)
Answers(faults, stored) ==
    IF faults = <<>> THEN <<>>
    ELSE <<LedgerAnswer(Head(faults), stored)>>
         \o Answers(Tail(faults), LedgerStores(Head(faults), stored))

\* the answer ends the call: the receipt is accepted, a duplicate, or rejected
Decides(code) == code \in (200..299) \cup {409, 400, 422}

\* the items of the queue that hold the receipt
QueuedItems(queue, receipt_id) ==
    SelectSeq(queue, LAMBDA item : item.receipt_id = receipt_id)

\* C38: emit_receipt_with_retry makes at most max_retries delivery attempts for a
\* receipt: it returns the receipt id at the first accepted attempt or the first 409
\* duplicate response, raises immediately on a 400 or 422 response without further
\* attempts and without queueing, and after max_retries failed attempts puts the
\* receipt on the retry queue exactly once (retry_count 0) and raises.
C38_EmitAttemptsBounded ==
    [][issued' = issued + 1 =>
          LET answers == Answers(ret'.arg, FALSE)
              deciding == {k \in 1..MaxRetries : Decides(answers[k])}
              first == CHOOSE k \in deciding : \A j \in deciding : k <= j
          IN /\ ret'.op = "emit_receipt_with_retry"
             /\ ret'.posts <= MaxRetries
             /\ IF deciding = {}
                THEN /\ ret'.posts = MaxRetries
                     /\ ret'.raised
                     /\ retry_queue' = Append(retry_queue, [receipt_id |-> issued',
                                                            retry_count |-> 0])
                ELSE /\ ret'.posts = first
                     /\ retry_queue' = retry_queue
                     /\ IF answers[first] \in {400, 422}
                        THEN ret'.raised
                        ELSE ~ret'.raised /\ ret'.out = Some(issued')]_vars

\* the first request fails, the second is rejected: two requests, no third, nothing
\* queued
C38_Witness ==
    /\ ret.op = "emit_receipt_with_retry"
    /\ Answers(ret.arg, FALSE)[1] = 503
    /\ Answers(ret.arg, FALSE)[2] = 422
    /\ ret.posts = 2
    /\ ret.raised
    /\ QueuedItems(retry_queue, issued) = <<>>

\* the first request is stored and its answer lost, the second is a duplicate
C38_WitnessDuplicate ==
    /\ ret.op = "emit_receipt_with_retry"
    /\ Answers(ret.arg, FALSE)[2] = 409
    /\ ret.out = Some(issued)

\* three failed requests: the receipt is queued and the call raises
C38_WitnessQueued ==
    /\ ret.op = "emit_receipt_with_retry"
    /\ ret.posts = MaxRetries
    /\ QueuedItems(retry_queue, issued) = <<[receipt_id |-> issued, retry_count |-> 0]>>


\* a step of the retry worker: the queue changes and no receipt is issued
WorkerCycle == issued' = issued /\ retry_queue' # retry_queue

\* the receipts the cycle handles: the first 10 of the queue, or all of them
Handled == SubSeq(retry_queue, 1, Min2(ReceiptsPerCycle, Len(retry_queue)))

\* C39: background retry is bounded: each cycle of the retry worker handles at most
\* 10 queued receipts, each attempt increments the receipt's retry_count, a receipt
\* is removed from the queue for good when an attempt succeeds or when its 10th
\* attempt fails, and otherwise it is re-queued at the tail; hence no receipt is
\* attempted more than 10 times by the worker and a receipt is never in the queue
\* twice.
C39_RetryBounded ==
    /\ [](\A i \in DOMAIN retry_queue :
             /\ retry_queue[i].retry_count < RetryLimit
             /\ \A j \in DOMAIN retry_queue :
                   retry_queue[i].receipt_id = retry_queue[j].receipt_id => i = j)
    /\ [][WorkerCycle =>
             LET rest == Len(retry_queue) - Len(Handled)
                 requeued == SubSeq(retry_queue', rest + 1, Len(retry_queue'))
                 attempted == [i \in DOMAIN Handled |->
                                  [Handled[i] EXCEPT !.retry_count = @ + 1]]
             IN /\ Len(Handled) <= ReceiptsPerCycle
                /\ Len(retry_queue') >= rest
                /\ \A i \in 1..rest : retry_queue'[i] = retry_queue[Len(Handled) + i]
                /\ requeued =
                      SelectSeq(attempted,
                                LAMBDA item : QueuedItems(requeued, item.receipt_id) # <<>>)
                /\ \A i \in DOMAIN attempted :
                      QueuedItems(retry_queue', attempted[i].receipt_id) = <<>>
                          => \/ attempted[i].receipt_id \in ledger'
                             \/ attempted[i].retry_count = RetryLimit]_vars

\* a receipt was given up: it is neither on the queue nor in the ledger, and another
\* receipt is on its last attempt but one
C39_Witness ==
    /\ \E r \in 1..issued : r \notin ledger /\ QueuedItems(retry_queue, r) = <<>>
    /\ \E i \in DOMAIN retry_queue : retry_queue[i].retry_count = RetryLimit - 1

\* a cycle on a queue of 12 handled 10 of them: receipts 11 and 12 moved to the
\* front unattempted, the others follow with one attempt each
C39_WitnessTenPerCycle ==
    /\ Len(retry_queue) = 12
    /\ retry_queue[1] = [receipt_id |-> 11, retry_count |-> 0]
    /\ retry_queue[3] = [receipt_id |-> 1, retry_count |-> 1]


\* the receipts on the queue
QueuedIds(queue) == {queue[i].receipt_id : i \in DOMAIN queue}

\* C40: a receipt placed on the retry queue stays on it until the retry worker takes
\* it off (to deliver it or to give up after 10 failed attempts): queueing further
\* failed receipts never removes an already queued one.
C40_QueuedUntilTaken ==
    [][issued' # issued => QueuedIds(retry_queue) \subseteq QueuedIds(retry_queue')]_vars

====
